---------------------------- MODULE Spec2Model ----------------------------
(***************************************************************************)
(* The autonomous agent orchestration core of bubbleAIv3:                  *)
(*   src/agents/autonomous/handler.ts                                      *)
(*     isGoogleModel, streamOpenRouter, generateContentStreamWithRetry,    *)
(*     runAutonomousAgent.                                                 *)
(*                                                                         *)
(* Text is a sequence of fragments.  Wherever the code inspects a text     *)
(* with a pattern (the directive tags, the YouTube URL patterns, trim,     *)
(* startsWith / includes on a model id) the fragments are single           *)
(* characters, so the patterns are evaluated character by character as     *)
(* the JavaScript regular expressions evaluate them.  Fixed sentences      *)
(* the code only concatenates (status notices, the synthesis instruction)  *)
(* are one fragment each.                                                  *)
(***************************************************************************)
EXTENDS Integers, Sequences, FiniteSets, TLC

\* ------------------------------------------------------------------------
\* Text primitives
\* ------------------------------------------------------------------------

Min(S) == CHOOSE x \in S : \A y \in S : x <= y

Max(S) == CHOOSE x \in S : \A y \in S : x >= y

LowerCase ==
  <<"a", "b", "c", "d", "e", "f", "g", "h", "i", "j", "k", "l", "m",
    "n", "o", "p", "q", "r", "s", "t", "u", "v", "w", "x", "y", "z">>

UpperCase ==
  <<"A", "B", "C", "D", "E", "F", "G", "H", "I", "J", "K", "L", "M",
    "N", "O", "P", "Q", "R", "S", "T", "U", "V", "W", "X", "Y", "Z">>

\* Case folding of one character, as the i flag of a regular expression does.
Fold(c) ==
  IF \E k \in 1..Len(LowerCase) : LowerCase[k] = c
    THEN UpperCase[CHOOSE k \in 1..Len(LowerCase) : LowerCase[k] = c]
    ELSE c

\* The characters the "." of a JavaScript pattern does not match.
IsLineTerminator(c) == c \in {"\n", "\r"}

\* The characters \s matches and trim() removes.
IsSpace(c) == c \in {" ", "\t", "\n", "\r"}

\* Pattern p occurs in s at position i (ci: compared case-insensitively).
StartsAt(s, i, p, ci) ==
  /\ i >= 1
  /\ i + Len(p) - 1 <= Len(s)
  /\ \A k \in 1..Len(p) :
       IF ci THEN Fold(s[i + k - 1]) = Fold(p[k]) ELSE s[i + k - 1] = p[k]

\* String.prototype.includes
Includes(s, p) == \E i \in 1..(Len(s) + 1) : StartsAt(s, i, p, FALSE)

\* String.prototype.startsWith
StartsWith(s, p) == StartsAt(s, 1, p, FALSE)

\* String.prototype.trim
Trim(s) ==
  LET keep == {i \in 1..Len(s) : ~IsSpace(s[i])}
  IN  IF keep = {} THEN <<>> ELSE SubSeq(s, Min(keep), Max(keep))

\* !s.trim()
IsBlank(s) == \A i \in 1..Len(s) : IsSpace(s[i])

RECURSIVE Flatten(_)
Flatten(ss) == IF ss = <<>> THEN <<>> ELSE Head(ss) \o Flatten(Tail(ss))

\* ------------------------------------------------------------------------
\* Directive tags (handler.ts 434-448)
\* ------------------------------------------------------------------------

SEARCH == <<"S", "E", "A", "R", "C", "H">>
DEEP == <<"D", "E", "E", "P">>
THINK == <<"T", "H", "I", "N", "K">>
IMAGE == <<"I", "M", "A", "G", "E">>
PROJECT == <<"P", "R", "O", "J", "E", "C", "T">>
CANVAS == <<"C", "A", "N", "V", "A", "S">>
STUDY == <<"S", "T", "U", "D", "Y">>

OpenTag(name) == <<"<">> \o name \o <<">">>

CloseTag(name) == <<"<", "/">> \o name \o <<">">>

NoMatch == [found |-> FALSE, hasGroup |-> FALSE, cap |-> <<>>]

\* The positions where a lazy (.*?) that starts at `from` can hand over to
\* `close`: close occurs there and no line terminator lies in between.
LazyEnds(s, from, close, ci) ==
  {j \in from..(Len(s) + 1) :
     /\ StartsAt(s, j, close, ci)
     /\ \A k \in from..(j - 1) : ~IsLineTerminator(s[k])}

\* s.match(/open(.*?)close/): the leftmost position where the pattern
\* matches, the group ending at the first close after it.
MatchPair(s, open, close, ci) ==
  LET opens == {i \in 1..Len(s) : StartsAt(s, i, open, ci)}
      starts == {i \in opens : LazyEnds(s, i + Len(open), close, ci) # {}}
  IN  IF starts = {} THEN NoMatch
      ELSE LET i == Min(starts)
               j == Min(LazyEnds(s, i + Len(open), close, ci))
           IN  [found |-> TRUE, hasGroup |-> TRUE,
                cap |-> SubSeq(s, i + Len(open), j - 1)]

\* The end of the run of \s characters that starts at position w.
SpaceRunEnd(s, w) ==
  Min({j \in w..(Len(s) + 1) : j = Len(s) + 1 \/ ~IsSpace(s[j])})

\* s.match(/<SEARCH>deep\s+(.*?)<\/SEARCH>/i).  The greedy \s+ takes the
\* whole run of white space; giving characters back to (.*?) cannot turn a
\* failure into a match, so the group starts after the run.
MatchDeepAlias(s) ==
  LET open == OpenTag(SEARCH) \o <<"d", "e", "e", "p">>
      close == CloseTag(SEARCH)
      ok(i) == /\ StartsAt(s, i, open, TRUE)
               /\ SpaceRunEnd(s, i + Len(open)) > i + Len(open)
               /\ LazyEnds(s, SpaceRunEnd(s, i + Len(open)), close, TRUE) # {}
      starts == {i \in 1..Len(s) : ok(i)}
  IN  IF starts = {} THEN NoMatch
      ELSE LET i == Min(starts)
               g == SpaceRunEnd(s, i + Len(open))
               j == Min(LazyEnds(s, g, close, TRUE))
           IN  [found |-> TRUE, hasGroup |-> TRUE, cap |-> SubSeq(s, g, j - 1)]

\* s.match(/<THINK>/): a match without a group.
MatchBare(s, open) ==
  IF Includes(s, open) THEN [found |-> TRUE, hasGroup |-> FALSE, cap |-> <<>>]
  ELSE NoMatch

\* A mutant of the SEARCH pattern: (.*) instead of (.*?), the group
\* reaching to the last closing marker of the line.
searchMatch_Greedy(gen) ==
  LET open == OpenTag(SEARCH)
      close == CloseTag(SEARCH)
      opens == {i \in 1..Len(gen) : StartsAt(gen, i, open, FALSE)}
      starts == {i \in opens : LazyEnds(gen, i + Len(open), close, FALSE) # {}}
  IN  IF starts = {} THEN NoMatch
      ELSE [found |-> TRUE, hasGroup |-> TRUE,
            cap |-> SubSeq(gen, Min(starts) + Len(open),
                           Max(LazyEnds(gen, Min(starts) + Len(open), close,
                                        FALSE)) - 1)]

searchMatch(gen) == MatchPair(gen, OpenTag(SEARCH), CloseTag(SEARCH), FALSE)

deepMatch(gen) ==
  LET tag == MatchPair(gen, OpenTag(DEEP), CloseTag(DEEP), FALSE)
  IN  IF tag.found THEN tag ELSE MatchDeepAlias(gen)

thinkMatch(gen) ==
  LET tag == MatchPair(gen, OpenTag(THINK), CloseTag(THINK), FALSE)
  IN  IF tag.found THEN tag ELSE MatchBare(gen, OpenTag(THINK))

imageMatch(gen) == MatchPair(gen, OpenTag(IMAGE), CloseTag(IMAGE), FALSE)

projectMatch(gen) == MatchPair(gen, OpenTag(PROJECT), CloseTag(PROJECT), FALSE)

canvasMatch(gen) == MatchPair(gen, OpenTag(CANVAS), CloseTag(CANVAS), FALSE)

studyMatch(gen) == MatchPair(gen, OpenTag(STUDY), CloseTag(STUDY), FALSE)

Continue(action, p) == [hop |-> TRUE, action |-> action, prompt |-> p]

Terminal == [hop |-> FALSE, action |-> "SIMPLE", prompt |-> <<>>]

\* A mutant of the THINK prompt: the payload is taken as it is.
ThinkPrompt_Untrimmed(m, prompt) == IF m.cap # <<>> THEN m.cap ELSE prompt

\* currentPrompt = thinkMatch[1] ? thinkMatch[1].trim() : prompt; the group
\* is falsy when it is missing or empty.
ThinkPrompt(m, prompt) == IF m.cap # <<>> THEN Trim(m.cap) ELSE prompt

\* A mutant of the directive chain: SEARCH tested before DEEP.
NextDirective_SearchFirst(gen, prompt) ==
  LET search == searchMatch(gen)
      deep == deepMatch(gen)
      think == thinkMatch(gen)
      image == imageMatch(gen)
      project == projectMatch(gen)
      canvas == canvasMatch(gen)
      study == studyMatch(gen)
  IN  IF search.found THEN Continue("SEARCH", search.cap)
      ELSE IF deep.found THEN Continue("DEEP_SEARCH", deep.cap)
      ELSE IF think.found THEN Continue("THINK", ThinkPrompt(think, prompt))
      ELSE IF image.found THEN Continue("IMAGE", image.cap)
      ELSE IF project.found THEN Continue("PROJECT", project.cap)
      ELSE IF canvas.found THEN Continue("CANVAS", canvas.cap)
      ELSE IF study.found THEN Continue("STUDY", study.cap)
      ELSE Terminal

\* The chain of `if (xMatch) { currentAction = ...; currentPrompt = ...;
\* continue; }` after the stream of a SIMPLE hop (442-448); hop says whether
\* one of them fired.
NextDirective(gen, prompt) ==
  LET search == searchMatch(gen)
      deep == deepMatch(gen)
      think == thinkMatch(gen)
      image == imageMatch(gen)
      project == projectMatch(gen)
      canvas == canvasMatch(gen)
      study == studyMatch(gen)
  IN  IF deep.found THEN Continue("DEEP_SEARCH", deep.cap)
      ELSE IF search.found THEN Continue("SEARCH", search.cap)
      ELSE IF think.found THEN Continue("THINK", ThinkPrompt(think, prompt))
      ELSE IF image.found THEN Continue("IMAGE", image.cap)
      ELSE IF project.found THEN Continue("PROJECT", project.cap)
      ELSE IF canvas.found THEN Continue("CANVAS", canvas.cap)
      ELSE IF study.found THEN Continue("STUDY", study.cap)
      ELSE Terminal

\* ------------------------------------------------------------------------
\* YouTube detection (handler.ts 153-169)
\* ------------------------------------------------------------------------

\* [^"&?\/\s]
IsIdChar(c) == c \notin {"\"", "&", "?", "/"} /\ ~IsSpace(c)

\* ([^"&?\/\s]{11}) at position g
IdAt(s, g) ==
  /\ g >= 1
  /\ g + 10 <= Len(s)
  /\ \A k \in g..(g + 10) : IsIdChar(s[k])

YoutubeCom == <<"y", "o", "u", "t", "u", "b", "e", ".", "c", "o", "m", "/">>

YoutuBe == <<"y", "o", "u", "t", "u", ".", "b", "e", "/">>

Shorts == <<"s", "h", "o", "r", "t", "s", "/">>

\* [^\/]+\/.+\/ from position p: the run of non-slash characters ends at the
\* first slash a; the greedy .+ then reaches the last slash b of the line
\* that an id follows.  The set of such b.
PathEnds(s, p) ==
  LET slashes == {a \in p..Len(s) : s[a] = "/"}
  IN  IF slashes = {} \/ Min(slashes) = p THEN {}
      ELSE LET a == Min(slashes)
           IN  {b \in (a + 2)..Len(s) :
                  /\ s[b] = "/"
                  /\ \A k \in (a + 1)..(b - 1) : ~IsLineTerminator(s[k])
                  /\ IdAt(s, b + 1)}

\* .*[?&]v= from position p: the positions q of the ? or & an id follows.
QueryEnds(s, p) ==
  {q \in p..Len(s) :
     /\ s[q] \in {"?", "&"}
     /\ StartsAt(s, q + 1, <<"v", "=">>, FALSE)
     /\ \A k \in p..(q - 1) : ~IsLineTerminator(s[k])
     /\ IdAt(s, q + 3)}

\* Where the id group starts when the video pattern matches at position i
\* (0: no match at i).  The alternatives are tried in the order written.
VideoIdPosAt(s, i) ==
  IF StartsAt(s, i, YoutubeCom, FALSE)
    THEN LET p == i + Len(YoutubeCom)
         IN  IF PathEnds(s, p) # {} THEN Max(PathEnds(s, p)) + 1
             ELSE IF StartsAt(s, p, <<"v", "/">>, FALSE) /\ IdAt(s, p + 2)
               THEN p + 2
             ELSE IF StartsAt(s, p, <<"e", "m", "b", "e", "d", "/">>, FALSE)
                     /\ IdAt(s, p + 6)
               THEN p + 6
             ELSE IF StartsAt(s, p, <<"e", "/">>, FALSE) /\ IdAt(s, p + 2)
               THEN p + 2
             ELSE IF QueryEnds(s, p) # {} THEN Max(QueryEnds(s, p)) + 3
             ELSE 0
  ELSE IF StartsAt(s, i, YoutuBe, FALSE) /\ IdAt(s, i + Len(YoutuBe))
    THEN i + Len(YoutuBe)
  ELSE 0

\* A match result: [0] is the whole match, [1] the id.
UrlMatch(s, i, g) ==
  [found |-> TRUE, whole |-> SubSeq(s, i, g + 10), id |-> SubSeq(s, g, g + 10)]

NoUrlMatch == [found |-> FALSE, whole |-> <<>>, id |-> <<>>]

youtubeMatch(s) ==
  LET starts == {i \in 1..Len(s) : VideoIdPosAt(s, i) # 0}
  IN  IF starts = {} THEN NoUrlMatch
      ELSE UrlMatch(s, Min(starts), VideoIdPosAt(s, Min(starts)))

youtubeShortMatch(s) ==
  LET pat == YoutubeCom \o Shorts
      starts == {i \in 1..Len(s) :
                   StartsAt(s, i, pat, FALSE) /\ IdAt(s, i + Len(pat))}
  IN  IF starts = {} THEN NoUrlMatch
      ELSE UrlMatch(s, Min(starts), Min(starts) + Len(pat))

\* A mutant of the override: the router's decision is never overridden.
initialAction_Never(p) == "null"

\* initialAction: 'SEARCH' when either pattern matches, else null.
initialAction(p) ==
  IF youtubeShortMatch(p).found \/ youtubeMatch(p).found THEN "SEARCH"
  ELSE "null"

\* The prompt after the rewrite of line 168 (unchanged without a match).
RewrittenPrompt(p) ==
  IF youtubeShortMatch(p).found
    THEN <<"Find details for YouTube ", "Short", " ID: ">>
         \o youtubeShortMatch(p).id
         \o <<". Title, Channel, and Summary. URL: ">>
         \o youtubeShortMatch(p).whole
  ELSE IF youtubeMatch(p).found
    THEN <<"Find details for YouTube ", "Video", " ID: ">>
         \o youtubeMatch(p).id
         \o <<". Title, Channel, and Summary. URL: ">>
         \o youtubeMatch(p).whole
  ELSE p

\* ------------------------------------------------------------------------
\* Model identifiers (handler.ts 20-24, 134-147, 243)
\* ------------------------------------------------------------------------

GeminiFlash ==
  <<"g", "e", "m", "i", "n", "i", "-", "2", ".", "5", "-", "f", "l", "a", "s", "h">>

GoogleGemma ==
  <<"g", "o", "o", "g", "l", "e", "/", "g", "e", "m", "m", "a", "-", "3">>

MetaLlama == <<"m", "e", "t", "a", "/", "l", "l", "a", "m", "a", "-", "3">>

isGoogleModel(m) ==
  IF m = <<>> THEN TRUE
  ELSE \/ StartsWith(m, <<"g", "e", "m", "i", "n", "i">>)
       \/ StartsWith(m, <<"v", "e", "o">>)
       \/ Includes(m, <<"g", "o", "o", "g", "l", "e">>)

\* A mutant of the THINK hop's test: the generation of the model is not
\* looked at.
SupportsThinking_AnyNative(m) == isGoogleModel(m)

\* The THINK hop's test: a native model of the gemini-2.5 generation.
SupportsThinking(m) ==
  /\ isGoogleModel(m)
  /\ Includes(m, <<"g", "e", "m", "i", "n", "i", "-", "2", ".", "5">>)

\* \w of a JavaScript pattern
IsWordChar(c) ==
  \/ \E k \in 1..Len(LowerCase) : c \in {LowerCase[k], UpperCase[k]}
  \/ c \in {"0", "1", "2", "3", "4", "5", "6", "7", "8", "9", "_"}

\* (model.split('/').pop() || model).replace(/-/g, ' ')
\*   .replace(/\b\w/g, l => l.toUpperCase()) (190-193)
FriendlyModelName(m) ==
  LET at == {i \in 1..Len(m) : m[i] = "/"}
      last == IF at = {} THEN m ELSE SubSeq(m, Max(at) + 1, Len(m))
      raw == IF last = <<>> THEN m ELSE last
      spaced == [i \in 1..Len(raw) |-> IF raw[i] = "-" THEN " " ELSE raw[i]]
  IN  [i \in 1..Len(spaced) |->
         IF IsWordChar(spaced[i]) /\ (i = 1 \/ ~IsWordChar(spaced[i - 1]))
           THEN Fold(spaced[i]) ELSE spaced[i]]

\* if (!model || model.trim() === '') model = 'gemini-2.5-flash'
ValidModel(m) == IF IsBlank(m) THEN GeminiFlash ELSE m

\* ------------------------------------------------------------------------
\* Failures of the collaborators
\* ------------------------------------------------------------------------

\* A thrown Error: who threw it, its HTTP status (0: none) and the words its
\* message contains among those the code looks for with includes().
Err(src, name, status, keywords) ==
  [src |-> src, name |-> name, status |-> status, keywords |-> keywords]

NoError == Err("none", "none", 0, {})

\* Failures of ai.models.generateContentStream
RateLimitStatus == Err("native", "status 429", 429, {})
RateLimitMessage == Err("native", "message with 429", 0, {"429"})
QuotaMessage == Err("native", "message with quota", 0, {"quota"})
ServerError == Err("native", "status 500", 500, {})

\* throw new Error("Max retries exceeded")
MaxRetriesExceeded == Err("native", "Max retries exceeded", 0, {})

\* Failures streamOpenRouter throws on a non-success status (47-66)
OpenRouterUnavailable ==
  Err("aggregator", "The model is currently unavailable via OpenRouter (No providers)",
      404, {"currently unavailable", "unavailable", "OpenRouter"})
OpenRouterGeneric ==
  Err("aggregator", "OpenRouter Error (500)", 500, {"OpenRouter"})

\* A failure while a stream is being read
StreamBroken == Err("stream", "network error", 0, {})

RouterError == Err("router", "router failed", 0, {})
MemoryError == Err("memory", "memory failed", 0, {})
SearchError == Err("search", "search failed", 0, {})
UsageError == Err("usage", "incrementThinkingCount failed", 0, {})
CanvasError == Err("canvas", "runCanvasAgent failed", 0, {})
ProjectError == Err("native", "generateContent failed", 0, {})
ImageError == Err("image", "generateImage failed", 0, {})

\* error.message.includes(word)
MessageIncludes(e, word) == word \in e.keywords

\* isQuotaError (114-116)
isQuotaError(e) ==
  \/ e.status = 429
  \/ MessageIncludes(e, "429")
  \/ MessageIncludes(e, "quota")

\* getUserFriendlyError(error): the generic conversion of a failure into a
\* text for the user.
getUserFriendlyError(e) == <<"friendly: ", e.name>>

\* The text of the message the outer catch returns (464-465).
ErrorText(e) ==
  <<"An error occurred: ">>
  \o (IF MessageIncludes(e, "OpenRouter") THEN <<e.name>>
      ELSE getUserFriendlyError(e))

\* ------------------------------------------------------------------------
\* Retry of the native streaming call (handler.ts 98-129)
\* ------------------------------------------------------------------------

RECURSIVE Pow2(_)
Pow2(n) == IF n = 0 THEN 1 ELSE 2 * Pow2(n - 1)

\* A mutant of the backoff: linear instead of exponential.
Delay_Linear(attempt) == (attempt + 1) * 2000 + 1000

\* const delay = Math.pow(2, attempt) * 2000 + 1000
Delay(attempt) == Pow2(attempt) * 2000 + 1000

\* Math.round(delay/1000), the number the retry notice shows
DelaySeconds(attempt) == (Delay(attempt) + 500) \div 1000

\* A mutant of the retry test: every failure is retried.
ShouldRetry_AnyError(e, attempt, retries) == attempt < retries

\* if (isQuotaError && attempt < retries)
ShouldRetry(e, attempt, retries) == isQuotaError(e) /\ attempt < retries

\* The default of the retries parameter; every caller passes 3 as well.
DefaultRetries == 3

\* ------------------------------------------------------------------------
\* State
\* ------------------------------------------------------------------------

VARIABLES
  input,                  \* the AgentInput of the turn (read-only)
  pc,                     \* where runAutonomousAgent stands
  model,                  \* let model (reassigned at 136 and 146)
  isNative,               \* const isNative (140)
  prompt,                 \* let prompt (reassigned at 168)
  routing,                \* let routing (174-179, 445)
  currentAction,          \* 202
  currentPrompt,          \* 203
  loopCount,              \* 204
  finalResponseText,      \* 198
  metadataPayload,        \* 199
  fallbackSearchContext,  \* 200
  generator,              \* which stream the hop reads (384)
  usedFallback,           \* 385
  generatedThisLoop,      \* 416
  result,                 \* the AgentExecutionResult returned
  returnedAt,             \* the line of the return statement taken (0: none)
  log,                    \* sink chunks, collaborator calls and throws, in order
  rpc,                    \* where generateContentStreamWithRetry stands
  attempt,                \* its loop variable
  retries,                \* its retries parameter
  onRetry,                \* whether an onRetry callback was passed
  rlog,                   \* its attempts, notices and waits, in order
  rerr,                   \* the error it threw
  rateLimitsLeft,         \* rate-limit failures the provider may still produce
  spc,                    \* where streamOpenRouter stands
  response,               \* what fetch resolved to (29)
  wire,                   \* the lines the upstream sends in the response body
  rest,                   \* the part of the body reader.read() has not delivered
  reads,                  \* the network chunks reader.read() has delivered
  buffer,                 \* 72
  yielded,                \* the deltas streamOpenRouter has yielded, in order
  serr,                   \* the error streamOpenRouter threw
  isSendingRef,           \* useChat.ts 84
  sends,                  \* the handleSendMessage calls: where each stands, what it returned
  sendLog,                \* what the calls did to the chat, the store and the agent, in order
  layers,                 \* the argument of Memory5Layer.getContext
  table,                  \* what the query of each layer answers
  layerAt,                \* the position of getContext's loop in layers (0: not called)
  memoryContext,          \* context (memoryService.ts 84)
  imageRequest,           \* the model generateImage is asked for and what the tiers answer
  fallbackOccurred,       \* geminiService.ts 144
  imageOutcome,           \* where generateImage stands, what it returned or threw
  history,                \* input.history (handler.ts 132)
  agentFiles,             \* input.files (handler.ts 132)
  historyMessages,        \* handler.ts 359, as sent to the model
  memories,               \* the rows of the memories table
  memCalls,               \* the store and get calls of Memory5Layer: where each stands
  memSerial,              \* so far each of these calls ran alone and had its queries answered
  memLast,                \* the value of the last store of each (layer, key) that returned
  messages,               \* useChat.ts 79: the message list
  stored,                 \* the rows of the messages table, in the order of their insert
  events,                 \* the INSERT events the channel has still to deliver
  activeChat,             \* useChat.ts 77: the id of the active chat
  activeChatIdRef,        \* useChat.ts 86
  fetches,                \* the calls of fetchMessages that wait for getMessages
  sending,                \* the message handleSendMessage is saving, and its model
  retry,                  \* the last call of handleRetry: the list it saw and its arguments
  selects,                \* the number of chat selections
  auth,                   \* the state of AuthProvider (its useState values)
  profiles,               \* the rows of the profiles table
  authPending,            \* the requests of AuthProvider that wait for their answer
  authBefore,             \* the state of AuthProvider when the impersonation began
  authCall                \* the handler of AuthProvider that ran last

inputVars == <<input>>

localVars ==
  <<model, isNative, prompt, routing, currentAction, currentPrompt, loopCount,
    finalResponseText, metadataPayload, fallbackSearchContext, generator,
    usedFallback, generatedThisLoop>>

exitVars == <<pc, result, returnedAt>>

retryVars == <<rpc, attempt, retries, onRetry, rlog, rerr, rateLimitsLeft>>

streamVars == <<spc, response, wire, rest, reads, buffer, yielded, serr>>

sendVars == <<isSendingRef, sends, sendLog>>

memVars == <<layers, table, layerAt, memoryContext>>

imgVars == <<imageRequest, fallbackOccurred, imageOutcome>>

agentVars == <<inputVars, localVars, exitVars, log, retryVars>>

histVars == <<history, agentFiles, historyMessages>>

storeVars == <<memories, memCalls, memSerial, memLast>>

\* The variables of the chat view that handleSendMessage leaves alone
chatVars == <<stored, events, activeChat, activeChatIdRef, fetches, retry, selects>>

viewVars == <<messages, sending, chatVars>>

authVars == <<auth, profiles, authPending, authBefore, authCall>>

appVars == <<histVars, storeVars, viewVars, authVars>>

serviceVars == <<streamVars, sendVars, memVars, imgVars, appVars>>

vars == <<agentVars, serviceVars>>

\* ------------------------------------------------------------------------
\* Bounds of the environment
\* ------------------------------------------------------------------------

\* Rate-limit failures the native provider produces during one turn.
MaxRateLimits == 1

\* Pieces of text a generated response is put together from when the
\* directive scan is checked on its own.
MaxPieces == 2

\* The lines of a response body
MaxLines == 2

\* The calls of handleSendMessage
MaxCalls == 2

\* The layers getContext is asked for
MaxLayers == 2

\* The messages of the history of a turn
MaxHistory == 2

\* The calls of Memory5Layer.store and get
MaxMemCalls == 3

\* The chat selections of one run of the chat view
MaxSelects == 2

\* const MAX_LOOPS = 6
MAX_LOOPS == 6

\* ------------------------------------------------------------------------
\* Log entries
\* ------------------------------------------------------------------------

\* onStreamChunk(text); kind tells a generated text from a status notice
\* and from the image start marker.
Chunk(kind, text) == [ev |-> "chunk", who |-> kind, data |-> text]

Call(who, arg) == [ev |-> "call", who |-> who, data |-> arg]

\* What a collaborator answered.
Answer(who, what) == [ev |-> "answer", who |-> who, data |-> what]

Thrown(e) == [ev |-> "throw", who |-> e.src, data |-> <<e.name>>]

\* ------------------------------------------------------------------------
\* generateContentStreamWithRetry, one step per attempt and per wait
\* ------------------------------------------------------------------------

RetryEvent(ev, n, ms, e) == [ev |-> ev, attempt |-> n, ms |-> ms, err |-> e]

\* if (onRetry) onRetry(`(Rate limit hit. Retrying in ${...}s...)`)
RetryNotice(n) ==
  Chunk("status",
        <<"(Rate limit hit. Retrying in ", ToString(DelaySeconds(n)), "s...)">>)

\* The failures the provider can answer an attempt with.
NativeFailures ==
  {e \in {RateLimitStatus, RateLimitMessage, QuotaMessage, ServerError} :
     isQuotaError(e) => rateLimitsLeft > 0}

\* One pass of the for loop up to the decision of the catch clause
\* (110-121, 124); with the loop condition false, the throw of 128.
RetryAttempt ==
  /\ rpc = "attempt"
  /\ IF attempt > retries
       THEN /\ rpc' = "threw"
            /\ rerr' = MaxRetriesExceeded
            /\ UNCHANGED <<rlog, log, rateLimitsLeft>>
       ELSE \E e \in {NoError} \cup NativeFailures :
              IF e = NoError
                THEN /\ rpc' = "returned"
                     /\ rlog' = Append(rlog, RetryEvent("attempt", attempt, 0, e))
                     /\ UNCHANGED <<rerr, log, rateLimitsLeft>>
              ELSE IF ShouldRetry(e, attempt, retries)
                THEN /\ rpc' = "wait"
                     /\ rlog' = rlog
                                \o <<RetryEvent("attempt", attempt, 0, e)>>
                                \o (IF onRetry
                                      THEN <<RetryEvent("notice", attempt,
                                                        Delay(attempt), NoError)>>
                                      ELSE <<>>)
                     /\ log' = IF onRetry THEN Append(log, RetryNotice(attempt))
                               ELSE log
                     /\ rateLimitsLeft' = rateLimitsLeft - 1
                     /\ UNCHANGED rerr
              ELSE /\ rpc' = "threw"
                   /\ rerr' = e
                   /\ rlog' = Append(rlog, RetryEvent("attempt", attempt, 0, e))
                   /\ rateLimitsLeft' =
                        IF isQuotaError(e) THEN rateLimitsLeft - 1
                        ELSE rateLimitsLeft
                   /\ UNCHANGED log
  /\ UNCHANGED <<attempt, retries, onRetry>>
  /\ UNCHANGED <<inputVars, serviceVars, localVars, exitVars>>

\* await new Promise(resolve => setTimeout(resolve, delay)); attempt++ (122, 110)
RetryWait ==
  /\ rpc = "wait"
  /\ rlog' = Append(rlog, RetryEvent("wait", attempt, Delay(attempt), NoError))
  /\ attempt' = attempt + 1
  /\ rpc' = "attempt"
  /\ UNCHANGED <<retries, onRetry, rerr, rateLimitsLeft, log>>
  /\ UNCHANGED <<inputVars, serviceVars, localVars, exitVars>>

\* ------------------------------------------------------------------------
\* The turn's inputs and the answers of the collaborators
\* ------------------------------------------------------------------------

VideoId == <<"d", "Q", "w", "4", "w", "9", "W", "g", "X", "c", "Q">>

Https == <<"h", "t", "t", "p", "s", ":", "/", "/">>

WatchUrl == Https \o <<"w", "w", "w", ".">> \o YoutubeCom
            \o <<"w", "a", "t", "c", "h", "?", "v", "=">> \o VideoId

ShortsUrl == Https \o YoutubeCom \o Shorts \o VideoId

ShortLinkUrl == Https \o YoutuBe \o VideoId

EmbedUrl == Https \o YoutubeCom \o <<"e", "m", "b", "e", "d", "/">> \o VideoId

\* A link whose id is too short to be recognised.
BrokenUrl == Https \o YoutuBe \o <<"a", "b", "c", "1", "2">>

PlainPrompt == <<"h", "i">>

\* The prompts of a whole turn.
TurnPrompts == {PlainPrompt, <<"s", "e", "e", " ">> \o WatchUrl}

\* The prompts the preparation of a turn is checked on.
AllPrompts ==
  TurnPrompts
  \cup {WatchUrl, ShortsUrl, ShortsUrl \o <<" ", "o", "k">>, ShortLinkUrl,
        EmbedUrl, BrokenUrl, <<"a", " ">> \o ShortLinkUrl \o <<"?", "t", "=", "1">>,
        WatchUrl \o <<"&", "t", "=", "1", "\n", "h", "i">>,
        Https \o YoutubeCom \o <<"w", "a", "t", "c", "h", "?", "a", "=", "1", "&", "v", "=">>
          \o VideoId}

ModelIds == {<<>>, GoogleGemma, MetaLlama}

Actions ==
  {"SIMPLE", "SEARCH", "DEEP_SEARCH", "THINK", "IMAGE", "CANVAS", "PROJECT", "STUDY"}

Inputs(prompts) ==
  {[prompt |-> p, model |-> m, openrouter_api_key |-> k,
    chat |-> "chat-1", project |-> "project-1"] :
     p \in prompts, m \in ModelIds, k \in BOOLEAN}

\* What router.route answers: an action with parameters, or a failure.
Routing(action, p) == [action |-> action, parameters |-> [prompt |-> p]]

RouterAnswers ==
  {[ok |-> TRUE, routing |-> Routing(a, <<>>)] : a \in Actions}
  \cup {[ok |-> TRUE, routing |-> Routing("IMAGE", <<"c", "a", "t">>)],
        [ok |-> FALSE, routing |-> Routing("null", <<>>)]}

\* A source URL with what new URL(url) makes of it (parses: it did not throw).
Source == [href |-> "https://www.a.io/x", parses |-> TRUE,
           hostname |-> <<"w", "w", "w", ".", "a", ".", "i", "o">>]

BadSource == [href |-> "not a url", parses |-> FALSE, hostname |-> <<>>]

\* What researchService.deepResearch answers.
SearchAnswers ==
  {[ok |-> TRUE, answer |-> <<"A">>, sources |-> <<Source, BadSource>>,
    progress |-> TRUE],
   [ok |-> TRUE, answer |-> <<>>, sources |-> <<>>, progress |-> FALSE],
   [ok |-> FALSE, answer |-> <<>>, sources |-> <<>>, progress |-> FALSE]}

\* String.prototype.replace(pat, ''): the first occurrence removed.
RemoveFirst(s, pat) ==
  LET at == {i \in 1..Len(s) : StartsAt(s, i, pat, FALSE)}
  IN  IF at = {} THEN s
      ELSE SubSeq(s, 1, Min(at) - 1) \o SubSeq(s, Min(at) + Len(pat), Len(s))

\* { web: { uri: url, title: hostname } } (222-226)
Citation(src) ==
  [uri |-> src.href,
   title |-> IF src.parses THEN RemoveFirst(src.hostname, <<"w", "w", "w", ".">>)
             ELSE <<"Source">>]

GroundingChunk == [uri |-> "https://g.io/1", title |-> <<"g">>]

\* A stream: the chunks it yields and the failure that ends it, if any.
StreamOf(chunks, e) == [chunks |-> chunks, err |-> e]

TextChunk(t) == [text |-> t, grounding |-> <<>>]

GroundedChunk(t) == [text |-> t, grounding |-> <<GroundingChunk>>]

Tagged(name, payload) == OpenTag(name) \o payload \o CloseTag(name)

\* The texts a model answers a SIMPLE hop with, during a whole turn.
TurnTexts ==
  {<<"o", "k">>, <<" ">>,
   Tagged(SEARCH, <<"q">>), OpenTag(THINK), Tagged(IMAGE, <<"p">>),
   Tagged(STUDY, <<"s">>), Tagged(CANVAS, <<"c">>)}

SimpleStreams(failure) ==
  {StreamOf(<<TextChunk(t)>>, NoError) : t \in TurnTexts}
  \cup {StreamOf(<<>>, NoError),
        StreamOf(<<GroundedChunk(<<"o", "k">>), GroundedChunk(<<>>)>>, NoError),
        StreamOf(<<GroundedChunk(Tagged(SEARCH, <<"q">>))>>, NoError),
        StreamOf(<<>>, failure),
        StreamOf(<<TextChunk(<<"o", "k">>)>>, StreamBroken)}

\* What the aggregator can fail with when its request is sent.
AggregatorFailures == {OpenRouterUnavailable, OpenRouterGeneric}

\* The streams a THINK or STUDY hop reads.
TerminalStreams ==
  {StreamOf(<<TextChunk(<<"T">>)>>, NoError),
   StreamOf(<<>>, NoError),
   StreamOf(<<TextChunk(<<"T">>)>>, StreamBroken)}

\* ------------------------------------------------------------------------
\* Reading a stream (for await (const chunk of ...) if (chunk.text) ...)
\* ------------------------------------------------------------------------

\* The chunks the loop body acts on: those with a non-empty text.
WithText(chunks) == SelectSeq(chunks, LAMBDA c : c.text # <<>>)

\* The concatenation of the texts of the chunks.
TextOf(chunks) == Flatten([i \in 1..Len(chunks) |-> chunks[i].text])

\* A mutant of the loop body: the sink is not called.
ChunkEvents_Silent(chunks) == <<>>

\* The onStreamChunk calls of the loop body.
ChunkEvents(chunks) ==
  [i \in 1..Len(WithText(chunks)) |-> Chunk("text", WithText(chunks)[i].text)]

\* The groundingChunks the loop body pushes (424-430).
GroundingOf(chunks) ==
  Flatten([i \in 1..Len(WithText(chunks)) |-> WithText(chunks)[i].grounding])

\* ------------------------------------------------------------------------
\* runAutonomousAgent (handler.ts 131-467)
\* ------------------------------------------------------------------------

\* let metadataPayload = {}: has tells whether groundingMetadata is set.
NoMetadata == [has |-> FALSE, groundingMetadata |-> <<>>]

NoImage == <<>>

\* { project_id, chat_id, sender: 'ai', text, ...metadataPayload }
\* A mutant of the message: it names no chat.
Message_NoChat(text, meta, image) ==
  [project_id |-> input.project, chat_id |-> "none", sender |-> "ai",
   text |-> text, meta |-> meta, image_base64 |-> image]

Message(text, meta, image) ==
  [project_id |-> input.project, chat_id |-> input.chat, sender |-> "ai",
   text |-> text, meta |-> meta, image_base64 |-> image]

NoResult == [messages |-> <<>>]

\* return { messages: [ ... ] } at the given line, the log ending as lg.
Return(line, text, meta, image, lg) ==
  /\ pc' = "done"
  /\ returnedAt' = line
  /\ result' = [messages |-> <<Message(text, meta, image)>>]
  /\ log' = lg

\* A mutant of the outer catch: the failure leaves the function.
Catch_Rethrow(e, lg) ==
  /\ pc' = "raised"
  /\ returnedAt' = 0
  /\ result' = NoResult
  /\ log' = Append(lg, Thrown(e))

\* catch (error) { ... return { messages: [{ ..., text: `An error
\* occurred: ${errorMessage}` }] } } (462-466)
Catch(e, lg) ==
  /\ pc' = "done"
  /\ returnedAt' = 465
  /\ result' = [messages |-> <<Message(ErrorText(e), NoMetadata, NoImage)>>]
  /\ log' = Append(lg, Thrown(e))

\* A mutant of the loop condition: one hop more.
LoopGuard_OffByOne == loopCount <= MAX_LOOPS

\* while (loopCount < MAX_LOOPS)
LoopGuard == loopCount < MAX_LOOPS

\* A mutant of the head of the loop: the hop is not counted.
EnterHop_NotCounted(actions) ==
  /\ pc = "loop"
  /\ LoopGuard
  /\ currentAction \in actions
  /\ loopCount' = loopCount

\* while (loopCount < MAX_LOOPS) { loopCount++; switch (currentAction) ...
EnterHop(actions) ==
  /\ pc = "loop"
  /\ LoopGuard
  /\ currentAction \in actions
  /\ loopCount' = loopCount + 1

\* await generateContentStreamWithRetry(ai, {...}, 3, (msg) => onStreamChunk?.(msg))
CallWithRetry(gen) ==
  /\ pc' = "await"
  /\ generator' = gen
  /\ rpc' = "attempt"
  /\ attempt' = 0
  /\ retries' = DefaultRetries
  /\ onRetry' = TRUE
  /\ rlog' = <<>>
  /\ UNCHANGED <<rerr, rateLimitsLeft, result, returnedAt>>

KeyMissingNotice ==
  Chunk("status", <<"\n*(OpenRouter key missing, falling back to Gemini...)*\n">>)

\* From the entry of runAutonomousAgent to the head of the loop (131-204).
Start ==
  /\ pc = "start"
  /\ \E r \in RouterAnswers, memoryOk \in BOOLEAN :
       LET valid == ValidModel(input.model)
           native == isGoogleModel(valid)
           keyMissing == ~native /\ ~input.openrouter_api_key
           rewritten == RewrittenPrompt(input.prompt)
           routed == IF initialAction(input.prompt) # "null"
                       THEN Routing(initialAction(input.prompt), <<>>)
                       ELSE r.routing
           lg1 == (IF keyMissing THEN Append(log, KeyMissingNotice) ELSE log)
                  \o <<Call("router", rewritten)>>
           lg2 == lg1 \o <<Answer("router", <<r.routing.action>>),
                           Call("memory", <<>>)>>
       IN  /\ model' = IF keyMissing THEN GeminiFlash ELSE valid
           /\ isNative' = native
           /\ prompt' = rewritten
           /\ IF ~r.ok
                THEN /\ Catch(RouterError, lg1)
                     /\ UNCHANGED <<routing, currentAction, currentPrompt>>
              ELSE IF ~memoryOk
                THEN /\ Catch(MemoryError, lg2)
                     /\ routing' = routed
                     /\ UNCHANGED <<currentAction, currentPrompt>>
              ELSE /\ routing' = routed
                   /\ currentAction' = routed.action
                   /\ currentPrompt' = rewritten
                   /\ pc' = "loop"
                   /\ log' = lg2
                   /\ UNCHANGED <<result, returnedAt>>
  /\ UNCHANGED <<loopCount, finalResponseText, metadataPayload,
                 fallbackSearchContext, generator, usedFallback,
                 generatedThisLoop>>
  /\ UNCHANGED <<inputVars, serviceVars, retryVars>>

\* The loop condition false: the return after the loop (460).
LoopExit ==
  /\ pc = "loop"
  /\ ~LoopGuard
  /\ Return(460, finalResponseText, metadataPayload, NoImage, log)
  /\ UNCHANGED <<inputVars, serviceVars, localVars, retryVars>>

\* The synthesis instruction without the retrieved context.
SynthesisPrompt_NoContext(query, context) ==
  <<"USER QUERY: ">> \o query \o <<"\n\nSEARCH CONTEXT:\n">>
  \o <<"\n\nINSTRUCTIONS: Synthesize a comprehensive answer to the user's query based ONLY on the provided search context. Cite sources using [1], [2] format where appropriate.">>

\* const synthesisPrompt = `USER QUERY: ${currentPrompt}\n\nSEARCH CONTEXT:\n...` (232)
SynthesisPrompt(query, context) ==
  <<"USER QUERY: ">> \o query \o <<"\n\nSEARCH CONTEXT:\n">> \o context
  \o <<"\n\nINSTRUCTIONS: Synthesize a comprehensive answer to the user's query based ONLY on the provided search context. Cite sources using [1], [2] format where appropriate.">>

\* case 'SEARCH': case 'DEEP_SEARCH': (211-238)
HopSearch ==
  /\ EnterHop({"SEARCH", "DEEP_SEARCH"})
  /\ \E a \in SearchAnswers :
       LET lg == log
                 \o <<Chunk("status", <<"\nSearching sources...\n">>),
                      Call("search", currentPrompt)>>
                 \o (IF a.progress
                       THEN <<Chunk("status", <<"\n*", "progress", "*">>)>>
                       ELSE <<>>)
       IN  IF ~a.ok
             THEN /\ Catch(SearchError, lg)
                  /\ UNCHANGED <<metadataPayload, fallbackSearchContext,
                                 currentPrompt, currentAction>>
           ELSE /\ metadataPayload' =
                     IF Len(a.sources) > 0
                       THEN [has |-> TRUE,
                             groundingMetadata |->
                               [i \in 1..Len(a.sources) |-> Citation(a.sources[i])]]
                       ELSE metadataPayload
                /\ fallbackSearchContext' = a.answer
                /\ currentPrompt' = SynthesisPrompt(currentPrompt, a.answer)
                /\ currentAction' = "SIMPLE"
                /\ log' = Append(lg, Answer("search", a.answer))
                /\ UNCHANGED exitVars
  /\ UNCHANGED <<model, isNative, prompt, routing, finalResponseText,
                 generator, usedFallback, generatedThisLoop>>
  /\ UNCHANGED <<inputVars, serviceVars, retryVars>>

\* A mutant of the THINK hop: the usage counter is left alone.
CountThinking_Skipped(lg) ==
  Append(lg, Chunk("status", <<"\nThinking deeply...\n">>))

\* onStreamChunk?.("\nThinking deeply...\n"); await incrementThinkingCount(...)
\* (248-249)
CountThinking(lg) ==
  lg \o <<Chunk("status", <<"\nThinking deeply...\n">>),
          Call("incrementThinkingCount", <<>>)>>

\* case 'THINK': up to the call of the retry helper (240-265)
HopThink ==
  /\ EnterHop({"THINK"})
  /\ IF ~SupportsThinking(model)
       THEN /\ currentAction' = "SIMPLE"
            /\ UNCHANGED <<generator, log, exitVars, retryVars>>
       ELSE \E counted \in BOOLEAN :
              LET lg == CountThinking(log)
              IN  IF ~counted
                    THEN /\ Catch(UsageError, lg)
                         /\ UNCHANGED <<currentAction, generator, retryVars>>
                  ELSE /\ CallWithRetry("think")
                       /\ log' = Append(lg, Call("generateContentStream",
                                                 currentPrompt))
                       /\ UNCHANGED currentAction
  /\ UNCHANGED <<model, isNative, prompt, routing, currentPrompt,
                 finalResponseText, metadataPayload, fallbackSearchContext,
                 usedFallback, generatedThisLoop>>
  /\ UNCHANGED <<inputVars, serviceVars>>

\* JSON.stringify({ type: 'image_generation_start', text: finalResponseText })
ImageStartMarker(text) ==
  Chunk("marker",
        <<"{\"type\":\"image_generation_start\",\"text\":">> \o text \o <<"}">>)

\* A mutant of the failure note: nothing is said.
ImageFailedNote_Silent(e) == <<>>

\* `\n\n(Image generation failed: ${e.message})`
ImageFailedNote(e) == <<"\n\n(Image generation failed: ", e.name, ")">>

\* A mutant of the first two statements of the IMAGE hop: the collaborator
\* is called before the marker is sent.
ImageCalls_CallFirst(lg, text, imagePrompt) ==
  lg \o <<Call("generateImage", imagePrompt), ImageStartMarker(text)>>

\* onStreamChunk?.(JSON.stringify({...})); ... await generateImage(imagePrompt,
\* ...) (277-280)
ImageCalls(lg, text, imagePrompt) ==
  lg \o <<ImageStartMarker(text), Call("generateImage", imagePrompt)>>

\* case 'IMAGE': (276-297)
HopImage ==
  /\ EnterHop({"IMAGE"})
  /\ \E made \in BOOLEAN :
       LET imagePrompt == IF routing.parameters.prompt # <<>>
                            THEN routing.parameters.prompt
                            ELSE currentPrompt
           lg == ImageCalls(log, finalResponseText, imagePrompt)
           failed == finalResponseText \o ImageFailedNote(ImageError)
       IN  IF made
             THEN /\ Return(289, finalResponseText, metadataPayload,
                            <<"base64">>, lg)
                  /\ UNCHANGED finalResponseText
           ELSE /\ finalResponseText' = failed
                /\ Return(295, failed, metadataPayload, NoImage,
                          Append(lg, Chunk("text", ImageFailedNote(ImageError))))
  /\ UNCHANGED <<model, isNative, prompt, routing, currentAction,
                 currentPrompt, metadataPayload, fallbackSearchContext,
                 generator, usedFallback, generatedThisLoop>>
  /\ UNCHANGED <<inputVars, serviceVars, retryVars>>

\* What runCanvasAgent answers: a first message with or without text, or
\* a failure.
CanvasAnswers ==
  {[ok |-> TRUE, text |-> <<"canvas">>],
   [ok |-> TRUE, text |-> <<>>],
   [ok |-> FALSE, text |-> <<>>]}

\* A mutant of the sub-agent's input: the turn's own prompt is passed on.
CanvasInput_OwnPrompt(in, p) == in

\* { ...input, prompt: currentPrompt } (300-303)
CanvasInput(in, p) == [in EXCEPT !.prompt = p]

\* await runCanvasAgent(...): the call with the whole input it is given
CanvasCall(in) ==
  [ev |-> "call", who |-> "runCanvasAgent", data |-> in.prompt, input |-> in]

\* case 'CANVAS': (299-313)
HopCanvas ==
  /\ EnterHop({"CANVAS"})
  /\ \E a \in CanvasAnswers :
       LET lg == Append(log, CanvasCall(CanvasInput(input, currentPrompt)))
       IN  IF ~a.ok
             THEN /\ Catch(CanvasError, lg)
                  /\ UNCHANGED finalResponseText
           ELSE /\ finalResponseText' = a.text
                /\ Return(306, a.text, metadataPayload, NoImage,
                          Append(lg, Answer("runCanvasAgent", a.text)))
  /\ UNCHANGED <<model, isNative, prompt, routing, currentAction,
                 currentPrompt, metadataPayload, fallbackSearchContext,
                 generator, usedFallback, generatedThisLoop>>
  /\ UNCHANGED <<inputVars, serviceVars, retryVars>>

\* A mutant of the project summary: the generated description is left out.
ProjectMessage_NoText(text) ==
  <<"\nI've designed the project structure based on your request.\n\n">>

\* const projectMsg = `\nI've designed the project structure ...` (326)
ProjectMessage(text) ==
  <<"\nI've designed the project structure based on your request.\n\n">>
  \o text
  \o <<"\n\n(Switch to Co-Creator mode to fully hydrate and edit these files.)">>

\* case 'PROJECT': (315-330)
HopProject ==
  /\ EnterHop({"PROJECT"})
  /\ IF ~isGoogleModel(model)
       THEN /\ currentAction' = "SIMPLE"
            /\ UNCHANGED <<finalResponseText, log, exitVars>>
       ELSE \E generated \in BOOLEAN :
              LET lg == log
                        \o <<Chunk("status", <<"\nBuilding project structure...\n">>),
                             Call("generateContent", currentPrompt)>>
                  msg == ProjectMessage(<<"{}">>)
              IN  IF ~generated
                    THEN /\ Catch(ProjectError, lg)
                         /\ UNCHANGED <<currentAction, finalResponseText>>
                  ELSE /\ finalResponseText' = finalResponseText \o msg
                       /\ Return(329, finalResponseText \o msg, metadataPayload,
                                 NoImage, Append(lg, Chunk("text", msg)))
                       /\ UNCHANGED currentAction
  /\ UNCHANGED <<model, isNative, prompt, routing, currentPrompt,
                 metadataPayload, fallbackSearchContext, generator,
                 usedFallback, generatedThisLoop>>
  /\ UNCHANGED <<inputVars, serviceVars, retryVars>>

\* case 'STUDY': up to the call of the retry helper (332-340)
HopStudy ==
  /\ EnterHop({"STUDY"})
  /\ IF ~isGoogleModel(model)
       THEN /\ currentAction' = "SIMPLE"
            /\ UNCHANGED <<generator, log, exitVars, retryVars>>
       ELSE /\ CallWithRetry("study")
            /\ log' = log
                      \o <<Chunk("status", <<"\nCreating study plan...\n">>),
                           Call("generateContentStream", currentPrompt)>>
            /\ UNCHANGED currentAction
  /\ UNCHANGED <<model, isNative, prompt, routing, currentPrompt,
                 finalResponseText, metadataPayload, fallbackSearchContext,
                 usedFallback, generatedThisLoop>>
  /\ UNCHANGED <<inputVars, serviceVars>>

\* A mutant of the system instruction: it differs from hop to hop.
SystemPrompt_PerHop(m) ==
  <<"autonomousInstruction with: You are currently running on the model: **">>
  \o FriendlyModelName(m)
  \o <<"**", "\n\n[MEMORY]\n", "{}", "\n\n", "[CURRENT DATE & TIME]\n",
       ToString(loopCount), "\n">>

\* const systemPrompt = `${baseSystemInstruction}\n\n[MEMORY]\n${JSON.stringify(
\* memoryContext)}\n\n${dateTimeContext}` (353), of the constants of 182-196:
\* the memory context, the time of the turn's start, the model's name.
SystemPrompt(m) ==
  <<"autonomousInstruction with: You are currently running on the model: **">>
  \o FriendlyModelName(m)
  \o <<"**", "\n\n[MEMORY]\n", "{}", "\n\n", "[CURRENT DATE & TIME]\n",
       "time of the start", "\n">>

\* The model call of a SIMPLE hop: the user prompt and the system instruction
ModelCall(who, p, sys) ==
  [ev |-> "call", who |-> who, data |-> p, system |-> sys]

\* case 'SIMPLE': default: up to the stream being at hand (351-414).
\* streamOpenRouter is an async generator function: calling it only creates
\* the generator, so the try around the call (395-413) never sees a failure
\* and its catch clause, the switch to the native model, is not reached.
HopSimple ==
  /\ EnterHop(Actions \ {"SEARCH", "DEEP_SEARCH", "THINK", "IMAGE", "CANVAS",
                         "PROJECT", "STUDY"})
  /\ usedFallback' = FALSE
  /\ IF isNative
       THEN /\ CallWithRetry("native")
            /\ log' = Append(log, ModelCall("generateContentStream", currentPrompt,
                                            SystemPrompt(model)))
       ELSE /\ generator' = "aggregator"
            /\ pc' = "stream"
            /\ log' = Append(log, ModelCall("streamOpenRouter", currentPrompt,
                                            SystemPrompt(model)))
            /\ UNCHANGED <<result, returnedAt, retryVars>>
  /\ UNCHANGED <<model, isNative, prompt, routing, currentAction,
                 currentPrompt, finalResponseText, metadataPayload,
                 fallbackSearchContext, generatedThisLoop>>
  /\ UNCHANGED <<inputVars, serviceVars>>

\* The retry helper returned the stream.
AwaitReturned ==
  /\ pc = "await"
  /\ rpc = "returned"
  /\ pc' = "stream"
  /\ rpc' = "idle"
  /\ UNCHANGED <<attempt, retries, onRetry, rlog, rerr, rateLimitsLeft>>
  /\ UNCHANGED <<inputVars, serviceVars, localVars, result, returnedAt, log>>

\* The retry helper threw: the outer catch takes it.
AwaitThrew ==
  /\ pc = "await"
  /\ rpc = "threw"
  /\ Catch(rerr, log)
  /\ rpc' = "idle"
  /\ UNCHANGED <<attempt, retries, onRetry, rlog, rerr, rateLimitsLeft>>
  /\ UNCHANGED <<inputVars, serviceVars, localVars>>

\* The streams a SIMPLE hop can read from the generator at hand; the
\* aggregator's request is sent, and can fail, at the first read (27-66).
StreamsOf(gen) ==
  IF gen = "aggregator"
    THEN UNION {SimpleStreams(e) : e \in AggregatorFailures}
    ELSE SimpleStreams(StreamBroken)

\* if (isNative || usedFallback) { ... groundingMetadata.push(...) } (424-430)
PushGrounding(meta, chunks) ==
  IF (isNative \/ usedFallback) /\ GroundingOf(chunks) # <<>>
    THEN [has |-> TRUE,
          groundingMetadata |-> meta.groundingMetadata \o GroundingOf(chunks)]
    ELSE meta

\* let generatedThisLoop = ""; for await (const chunk of generator) (416-432)
StreamSimple ==
  /\ pc = "stream"
  /\ generator \in {"native", "aggregator", "fallback"}
  /\ \E st \in StreamsOf(generator) :
       /\ finalResponseText' = finalResponseText \o TextOf(st.chunks)
       /\ metadataPayload' = PushGrounding(metadataPayload, st.chunks)
       /\ generatedThisLoop' = TextOf(st.chunks)
       /\ IF st.err # NoError
            THEN Catch(st.err, log \o ChunkEvents(st.chunks))
            ELSE /\ pc' = "scan"
                 /\ log' = log \o ChunkEvents(st.chunks)
                 /\ UNCHANGED <<result, returnedAt>>
  /\ UNCHANGED <<model, isNative, prompt, routing, currentAction,
                 currentPrompt, loopCount, fallbackSearchContext, generator,
                 usedFallback>>
  /\ UNCHANGED <<inputVars, serviceVars, retryVars>>

\* The stream of a THINK or STUDY hop and its return (267-273, 342-348)
StreamTerminal ==
  /\ pc = "stream"
  /\ generator \in {"think", "study"}
  /\ \E st \in TerminalStreams :
       /\ finalResponseText' = finalResponseText \o TextOf(st.chunks)
       /\ IF st.err # NoError
            THEN Catch(st.err, log \o ChunkEvents(st.chunks))
            ELSE Return(IF generator = "think" THEN 273 ELSE 348,
                        finalResponseText \o TextOf(st.chunks),
                        metadataPayload, NoImage,
                        log \o ChunkEvents(st.chunks))
  /\ UNCHANGED <<model, isNative, prompt, routing, currentAction,
                 currentPrompt, loopCount, metadataPayload,
                 fallbackSearchContext, generator, usedFallback,
                 generatedThisLoop>>
  /\ UNCHANGED <<inputVars, serviceVars, retryVars>>

\* The directive scan of a SIMPLE hop, the substitution of the cached search
\* answer and the return (434-455)
SimpleScan ==
  /\ pc = "scan"
  /\ LET d == NextDirective(generatedThisLoop, prompt)
     IN  IF d.hop
           THEN /\ currentAction' = d.action
                /\ currentPrompt' = d.prompt
                /\ routing' = IF d.action = "IMAGE"
                                THEN [routing EXCEPT !.parameters =
                                                       [prompt |-> d.prompt]]
                                ELSE routing
                /\ pc' = "loop"
                /\ UNCHANGED <<finalResponseText, result, returnedAt, log>>
         ELSE IF IsBlank(finalResponseText) /\ fallbackSearchContext # <<>>
           THEN /\ finalResponseText' = fallbackSearchContext
                /\ Return(455, fallbackSearchContext, metadataPayload, NoImage,
                          Append(log, Chunk("text", fallbackSearchContext)))
                /\ UNCHANGED <<currentAction, currentPrompt, routing>>
         ELSE /\ Return(455, finalResponseText, metadataPayload, NoImage, log)
              /\ UNCHANGED <<currentAction, currentPrompt, routing,
                             finalResponseText>>
  /\ UNCHANGED <<model, isNative, prompt, loopCount, metadataPayload,
                 fallbackSearchContext, generator, usedFallback,
                 generatedThisLoop>>
  /\ UNCHANGED <<inputVars, serviceVars, retryVars>>

\* ------------------------------------------------------------------------
\* streamOpenRouter (27-95)
\*
\* A response body is a sequence of symbols.  A data line is the prefix
\* "data: " (the symbols "data:" and " ") followed by its payload; a JSON
\* payload is "{", the content of choices[0].delta, "}".  "\n" ends a line.
\* The network cuts the body into chunks between any two symbols.
\* ------------------------------------------------------------------------

DataPrefix == <<"data:", " ">>

DoneLine == DataPrefix \o <<"[DONE]">>

\* The non-empty delta contents an upstream sends
Contents == {"Hi", "Yo"}

\* buffer.split("\n")
RECURSIVE Split(_)
Split(s) ==
  IF \A i \in 1..Len(s) : s[i] # "\n"
  THEN <<s>>
  ELSE LET n == Min({i \in 1..Len(s) : s[i] = "\n"})
       IN <<SubSeq(s, 1, n - 1)>> \o Split(SubSeq(s, n + 1, Len(s)))

\* The buffer forgets the unfinished line after every read.
Carry_Dropped(parts) == <<>>

\* buffer = lines.pop() || ""
Carry(parts) == parts[Len(parts)]

\* JSON.parse(text) followed by json.choices[0]?.delta?.content: white space
\* after the value is ignored; anything but a whole JSON value throws.
ParseDelta(text) ==
  LET b == IF text # <<>> /\ text[Len(text)] = "\r"
           THEN SubSeq(text, 1, Len(text) - 1) ELSE text
  IN IF b = <<"{", "}">>
     THEN [ok |-> TRUE, content |-> <<>>]
     ELSE IF Len(b) = 3 /\ b[1] = "{" /\ b[2] \in Contents /\ b[3] = "}"
          THEN [ok |-> TRUE, content |-> <<b[2]>>]
          ELSE [ok |-> FALSE, content |-> <<>>]

\* The body of the for loop (82-88): what one line makes the generator yield
LineDeltas(line) ==
  IF StartsWith(line, DataPrefix) /\ line # DoneLine
  THEN LET d == ParseDelta(SubSeq(line, Len(DataPrefix) + 1, Len(line)))
       IN IF d.ok THEN d.content ELSE <<>>
  ELSE <<>>

\* for (const line of lines) ...
RECURSIVE Deltas(_)
Deltas(lines) ==
  IF lines = <<>> THEN <<>> ELSE LineDeltas(Head(lines)) \o Deltas(Tail(lines))

\* The body of an error response: whether it is JSON, its error.message
\* (<<>>: none), its error.code (0: none) and its text.
ErrorBodies ==
  {[json |-> TRUE, message |-> <<"No allowed providers", " are available.">>,
    code |-> 404, text |-> <<"{no providers, 404}">>],
   [json |-> TRUE, message |-> <<"No allowed providers", " are available.">>,
    code |-> 0, text |-> <<"{no providers}">>],
   [json |-> TRUE, message |-> <<"Model not found">>,
    code |-> 404, text |-> <<"{not found, 404}">>],
   [json |-> TRUE, message |-> <<"Provider returned error">>,
    code |-> 502, text |-> <<"{provider error, 502}">>],
   [json |-> TRUE, message |-> <<>>, code |-> 0, text |-> <<"{}">>],
   [json |-> FALSE, message |-> <<>>, code |-> 0, text |-> <<"Bad Gateway">>],
   [json |-> FALSE, message |-> <<>>, code |-> 0, text |-> <<>>]}

NoBody == [json |-> FALSE, message |-> <<>>, code |-> 0, text |-> <<>>]

\* What fetch resolves to, or its rejection; stream: response.body is there.
Responses ==
  {[resolved |-> FALSE, status |-> 0, body |-> NoBody, stream |-> FALSE]}
  \cup {[resolved |-> TRUE, status |-> 200, body |-> NoBody, stream |-> s] :
          s \in BOOLEAN}
  \cup {[resolved |-> TRUE, status |-> st, body |-> b, stream |-> FALSE] :
          st \in {404, 429, 502}, b \in ErrorBodies}

\* 53
UnavailableMessage(m) ==
  <<"The model \"">> \o m
  \o <<"\" is currently unavailable via OpenRouter (No providers). Please select a different model.">>

\* response.text() at 62 runs only after response.json() at 50 has read the
\* body to its end and failed: the body is used, text() rejects, and the
\* catch(() => "") makes the text empty.
TextAfterJson(body) == <<>>

\* The message of the Error lines 48-65 throw on a non-success status
FailureOf(resp, m) ==
  LET b == resp.body
      errorMsg == <<"OpenRouter Error (", ToString(resp.status), ")">>
      textError == TextAfterJson(b)
  IN IF b.json
     THEN IF /\ resp.status = 404
             /\ \/ Includes(b.message, <<"No allowed providers">>)
                \/ b.code = 404
          THEN UnavailableMessage(m)
          ELSE IF b.message # <<>> THEN b.message ELSE errorMsg
     ELSE IF textError # <<>> THEN errorMsg \o <<": ">> \o textError ELSE errorMsg

\* 29-72: the request, the status test, the body test
OrFetch ==
  /\ spc = "fetch"
  /\ IF ~response.resolved
     THEN spc' = "threw" /\ serr' = <<"fetch failed">>
     ELSE IF response.status \notin 200..299
          THEN spc' = "threw" /\ serr' = FailureOf(response, model)
          ELSE IF ~response.stream
               THEN spc' = "threw" /\ serr' = <<"No response body from OpenRouter">>
               ELSE spc' = "read" /\ serr' = serr
  /\ UNCHANGED <<response, wire, rest, reads, buffer, yielded>>
  /\ UNCHANGED <<agentVars, sendVars, memVars, imgVars, appVars>>

\* 74-90: one reader.read() and the lines it completes.  The read delivers
\* the next chunk of the body, of any length, or reports the end, or rejects.
OrRead ==
  /\ spc = "read"
  /\ \/ /\ rest = <<>>
        /\ spc' = "done"
        /\ UNCHANGED <<rest, reads, buffer, yielded, serr>>
     \/ \E n \in 1..Len(rest) :
          LET lines == Split(buffer \o SubSeq(rest, 1, n))
          IN /\ rest' = SubSeq(rest, n + 1, Len(rest))
             /\ reads' = reads + 1
             /\ buffer' = Carry(lines)
             /\ yielded' = yielded \o Deltas(SubSeq(lines, 1, Len(lines) - 1))
             /\ UNCHANGED <<spc, serr>>
     \/ /\ rest # <<>>
        /\ spc' = "threw"
        /\ serr' = <<"network error">>
        /\ UNCHANGED <<rest, reads, buffer, yielded>>
  /\ UNCHANGED <<response, wire>>
  /\ UNCHANGED <<agentVars, sendVars, memVars, imgVars, appVars>>

\* ------------------------------------------------------------------------
\* useChat: handleSendMessage (src/hooks/useChat.ts 220-535)
\*
\* JavaScript runs a call without interruption from one await to the next:
\* an action is the code between two awaits.
\* ------------------------------------------------------------------------

Callers == 1..MaxCalls

Did(c, what) == [call |-> c, did |-> what]

ChatIds == {"c1", "c2"}

\* No chat: null
NoChat == "null"

\* A message, of the list or of the messages table. The id of a row is
\* <<"row", n>>, `temp-user-${Date.now()}` of call c is <<"temp-user", c>>.
Msg(id, chat, text, sender) ==
  [id |-> id, chat_id |-> chat, text |-> text, sender |-> sender]

\* m.id.startsWith('temp-')
IsTemp(m) == m.id[1] \in {"temp-user", "temp-ai"}

\* prev.map(m => m.id === id ? saved : m)
ReplaceId(msgs, id, saved) ==
  [i \in DOMAIN msgs |-> IF msgs[i].id = id THEN saved ELSE msgs[i]]

\* prev.map(m => m.id === id ? { ...m, text } : m)
WithTextAt(msgs, id, text) ==
  [i \in DOMAIN msgs |->
     IF msgs[i].id = id THEN [msgs[i] EXCEPT !.text = text] ELSE msgs[i]]

\* The update of 486-504: the saved messages take the place of the
\* temporary one, or are pushed when it is not in the list.
Spliced(msgs, id, saved) ==
  LET at == {i \in 1..Len(msgs) : msgs[i].id = id}
  IN  IF at # {}
        THEN SubSeq(msgs, 1, Min(at) - 1) \o saved
             \o SubSeq(msgs, Min(at) + 1, Len(msgs))
        ELSE msgs \o saved

\* No addMessage of handleSendMessage is under way
NotSending == [state |-> "none"]

\* A mutant of the return: the finally clause runs for every return.
SendReturn_AlwaysReleases(c, line) ==
  /\ sends' = [sends EXCEPT ![c] = [pc |-> "returned", at |-> line]]
  /\ isSendingRef' = FALSE

\* return ... at the given line; the finally clause of 532-534 runs for the
\* returns inside the try statement of 237-534 and for no other.
SendReturn(c, line) ==
  /\ sends' = [sends EXCEPT ![c] = [pc |-> "returned", at |-> line]]
  /\ isSendingRef' = (IF line \in {525, 531} THEN FALSE ELSE isSendingRef)

\* catch (e) { addToast(...); setMessages(...); return { messages: [] } } (527-531)
SendFailed(c, lg, msgs) ==
  /\ SendReturn(c, 531)
  /\ sendLog' = Append(lg, Did(c, "error shown"))
  /\ messages' = WithTextAt(msgs, <<"temp-ai", c>>, "error")
  /\ sending' = NotSending

\* setMessages(prev => [...prev, optimisticUserMessage, tempAiMessage]);
\* ... await addMessage(supabase, userMessageData) (402-406)
SendOptimistic(c, s, msgs) ==
  /\ sends' = [sends EXCEPT ![c].pc = "saving user"]
  /\ sendLog' = sendLog \o <<Did(c, "optimistic messages"), Did(c, "addMessage user")>>
  /\ messages' = msgs \o <<[s.msg EXCEPT !.id = <<"temp-user", c>>],
                           Msg(<<"temp-ai", c>>, s.msg.chat_id, "", "ai")>>
  /\ sending' = [s EXCEPT !.state = "asked"]

\* A mutant of the guard: it never sees a send in flight.
SendGuard_Open == FALSE

\* if (isSendingRef.current) (230)
SendGuard == isSendingRef

\* handleSendMessage(text, files, chat, modelOverride) up to its first
\* await, the list being msgs: the default of chatToUse (223: taken for an
\* argument that is undefined, not for null), the tests of 228 and 230, the
\* flag, and, without files, the optimistic messages and the save of the
\* user message.
SendCall(c, msgs, text, chat, modelOverride) ==
  \E inputs \in BOOLEAN, files \in BOOLEAN :
    LET chatToUse == IF chat = "undefined" THEN activeChat ELSE chat
        s == [state |-> "files",
              msg |-> Msg(<<"none", 0>>, chatToUse, text, "user"),
              model |-> modelOverride]
    IN  IF ~inputs \/ chatToUse = NoChat
          THEN /\ SendReturn(c, 228)
               /\ messages' = msgs
               /\ UNCHANGED <<sendLog, sending>>
        ELSE IF SendGuard
          THEN /\ SendReturn(c, 230)
               /\ messages' = msgs
               /\ UNCHANGED <<sendLog, sending>>
        ELSE /\ isSendingRef' = TRUE
             /\ IF files
                  THEN /\ sends' = [sends EXCEPT ![c].pc = "files"]
                       /\ sending' = s
                       /\ messages' = msgs
                       /\ UNCHANGED sendLog
                  ELSE SendOptimistic(c, s, msgs)

\* A call of handleSendMessage(text, files) by the chat view
\* (src/unnamed/part_001 239-242)
SendEnter(c) ==
  /\ sends[c].pc = "idle"
  /\ SendCall(c, messages, "hi", "undefined", "undefined")
  /\ UNCHANGED chatVars
  /\ UNCHANGED <<agentVars, streamVars, memVars, imgVars, histVars, storeVars,
                 authVars>>

\* The files have been read (243-380), or reading one of them rejected.
SendFiles(c) ==
  /\ sends[c].pc = "files"
  /\ \E read \in BOOLEAN :
       IF read THEN SendOptimistic(c, sending, messages) /\ UNCHANGED isSendingRef
       ELSE SendFailed(c, sendLog, messages)
  /\ UNCHANGED chatVars
  /\ UNCHANGED <<agentVars, streamVars, memVars, imgVars, histVars, storeVars,
                 authVars>>

\* The insert of addMessage reaches the table, and the channel of the
\* active chat (165-167) has an INSERT event to deliver; or it fails.
AddMessageStored ==
  /\ sending.state = "asked"
  /\ \E saved \in BOOLEAN :
       IF saved
         THEN LET row == [sending.msg EXCEPT !.id = <<"row", Len(stored) + 1>>]
              IN  /\ stored' = Append(stored, row)
                  /\ events' = IF row.chat_id = activeChat
                                 THEN events \cup {row} ELSE events
                  /\ sending' = [sending EXCEPT !.state = "stored", !.msg = row]
         ELSE /\ sending' = [sending EXCEPT !.state = "failed"]
              /\ UNCHANGED <<stored, events>>
  /\ UNCHANGED <<messages, activeChat, activeChatIdRef, fetches, retry, selects>>
  /\ UNCHANGED <<agentVars, streamVars, sendVars, memVars, imgVars, histVars,
                 storeVars, authVars>>

\* addMessage answered, or failed and was caught (406-411); runAgent is
\* called (450).
SendSaved(c) ==
  /\ sends[c].pc = "saving user"
  /\ sending.state \in {"stored", "failed"}
  /\ sends' = [sends EXCEPT ![c].pc = "agent"]
  /\ sendLog' = Append(sendLog, Did(c, "runAgent"))
  /\ messages' = IF sending.state = "stored"
                   THEN ReplaceId(messages, <<"temp-user", c>>, sending.msg)
                   ELSE messages
  /\ sending' = [sending EXCEPT !.state = "agent"]
  /\ UNCHANGED isSendingRef
  /\ UNCHANGED chatVars
  /\ UNCHANGED <<agentVars, streamVars, memVars, imgVars, histVars, storeVars,
                 authVars>>

\* runAgent answered, with or without chunks given to onStreamChunk
\* (418-436), with no message or with one, whose save begins (466-484); or
\* it rejected.
SendAgent(c) ==
  /\ sends[c].pc = "agent"
  /\ \E answer \in {"rejected", "no message", "message"}, streamed \in BOOLEAN :
       IF answer = "rejected"
         THEN SendFailed(c, sendLog, messages)
       ELSE /\ sends' = [sends EXCEPT ![c].pc = "after agent"]
            /\ messages' = IF streamed
                             THEN WithTextAt(messages, <<"temp-ai", c>>, "yo")
                             ELSE messages
            /\ IF answer = "message"
                 THEN /\ sendLog' = Append(sendLog, Did(c, "addMessage ai"))
                      /\ sending' =
                           [sending EXCEPT
                              !.state = "asked",
                              !.msg = Msg(<<"none", 0>>, @.chat_id, "yo", "ai")]
                 ELSE /\ sendLog' = sendLog
                      /\ sending' = [sending EXCEPT !.state = "no message"]
            /\ UNCHANGED isSendingRef
  /\ UNCHANGED chatVars
  /\ UNCHANGED <<agentVars, streamVars, memVars, imgVars, histVars, storeVars,
                 authVars>>

\* savedAiMessages (465-484): the saved row, or the message with a failed- id
SavedAiMessages(c) ==
  IF sending.state = "stored" THEN <<sending.msg>>
  ELSE IF sending.state = "failed"
    THEN <<[sending.msg EXCEPT !.id = <<"failed", c>>]>>
  ELSE <<>>

\* The messages of the answer replace the temporary one (486-504); the plan
\* and the title are updated (506-523); return agentResult (525).
SendFinish(c) ==
  /\ sends[c].pc = "after agent"
  /\ sending.state \in {"stored", "failed", "no message"}
  /\ \E planSaved \in BOOLEAN :
       LET lg == Append(sendLog, Did(c, "final messages"))
           final == Spliced(messages, <<"temp-ai", c>>, SavedAiMessages(c))
       IN  IF planSaved
             THEN /\ SendReturn(c, 525)
                  /\ sendLog' = lg
                  /\ messages' = final
                  /\ sending' = NotSending
             ELSE SendFailed(c, lg, final)
  /\ UNCHANGED chatVars
  /\ UNCHANGED <<agentVars, streamVars, memVars, imgVars, histVars, storeVars,
                 authVars>>

\* ------------------------------------------------------------------------
\* useChat: the message list (src/hooks/useChat.ts 79-192) and the retry
\* of the chat view (src/unnamed/part_001 213-230)
\*
\* A render and the effects it schedules are one step.
\* ------------------------------------------------------------------------

\* handleSelectChat(chat) or setActiveChat(null), and the render: the ref
\* takes the id (88-90), the effect of the chat before is cleaned up
\* (184-187: isMounted = false, the channel removed) and fetchMessages
\* begins (121-128) or empties the list (156-158).
SelectChat ==
  /\ selects < MaxSelects
  /\ \E chat \in (ChatIds \cup {NoChat}) \ {activeChat} :
       /\ activeChat' = chat
       /\ activeChatIdRef' = chat
       /\ fetches' = {[f EXCEPT !.isMounted = FALSE] : f \in fetches}
                       \cup (IF chat = NoChat THEN {}
                             ELSE {[n |-> selects, chatId |-> chat,
                                    isMounted |-> TRUE, state |-> "asked",
                                    history |-> <<>>]})
       /\ messages' = IF chat = NoChat THEN <<>> ELSE messages
  /\ events' = {}
  /\ selects' = selects + 1
  /\ UNCHANGED <<stored, sending, retry>>
  /\ UNCHANGED <<agentVars, streamVars, sendVars, memVars, imgVars, histVars,
                 storeVars, authVars>>

\* getMessages(supabase, chatId) reads the table (128), or fails
FetchRead ==
  /\ \E f \in fetches, read \in BOOLEAN :
       /\ f.state = "asked"
       /\ fetches' = (fetches \ {f}) \cup
            {IF read
               THEN [f EXCEPT !.state = "answered",
                              !.history = SelectSeq(stored,
                                            LAMBDA m : m.chat_id = f.chatId)]
               ELSE [f EXCEPT !.state = "failed"]}
  /\ UNCHANGED <<messages, stored, events, activeChat, activeChatIdRef,
                 sending, retry, selects>>
  /\ UNCHANGED <<agentVars, streamVars, sendVars, memVars, imgVars, histVars,
                 storeVars, authVars>>

\* A mutant of the test of 131: the result is written for whatever chat.
StillLooking_Always(f) == TRUE

\* if (isMounted && activeChatIdRef.current === chatId) (131)
StillLooking(f) == f.isMounted /\ activeChatIdRef = f.chatId

\* The update of 132-149: the history, then the optimistic messages whose
\* text and sender are not those of the last message of the history
Merged(prev, fetched) ==
  LET lastDbMsg == fetched[Len(fetched)]
      unique(opt) == ~(fetched # <<>> /\ lastDbMsg.text = opt.text
                       /\ lastDbMsg.sender = opt.sender)
  IN  fetched \o SelectSeq(SelectSeq(prev, IsTemp), unique)

\* fetchMessages goes on after its await (128-155)
FetchDone ==
  /\ \E f \in fetches :
       /\ f.state \in {"answered", "failed"}
       /\ fetches' = fetches \ {f}
       /\ messages' = IF f.state = "answered" /\ StillLooking(f)
                        THEN Merged(messages, f.history)
                        ELSE messages
  /\ UNCHANGED <<stored, events, activeChat, activeChatIdRef, sending, retry,
                 selects>>
  /\ UNCHANGED <<agentVars, streamVars, sendVars, memVars, imgVars, histVars,
                 storeVars, authVars>>

\* The INSERT event of a row reaches the handler of the channel (167-179)
RealtimeInsert ==
  /\ \E newMsg \in events :
       /\ events' = events \ {newMsg}
       /\ messages' =
            IF \E i \in 1..Len(messages) : messages[i].id = newMsg.id
              THEN messages
              ELSE LET kept(m) == ~IsTemp(m) \/ ~(m.text = newMsg.text
                                                   /\ m.sender = newMsg.sender)
                   IN  Append(SelectSeq(messages, kept), newMsg)
  /\ UNCHANGED <<stored, activeChat, activeChatIdRef, fetches, sending, retry,
                 selects>>
  /\ UNCHANGED <<agentVars, streamVars, sendVars, memVars, imgVars, histVars,
                 storeVars, authVars>>

ModelOverrides == {"undefined", "gemini-2.5-pro"}

\* handleRetry(messageId, modelOverride) of the chat view of a chat, for the
\* message at place i, the first of its id (214), an AI message behind a
\* user message (for another
\* message it returns at 215, 218 or 229 with nothing done): the list is
\* cut (224-225) and onSendMessage(prevMsg.text, null, null, modelOverride)
\* (228) is handleLocalSendMessage (LeftSidebar.tsx 839), which hands its
\* arguments on to handleSendMessage (742-748).
HandleRetry(c) ==
  /\ sends[c].pc = "idle"
  /\ activeChat # NoChat
  /\ \E i \in 2..Len(messages), modelOverride \in ModelOverrides :
       /\ \A k \in 1..(i - 1) : messages[k].id # messages[i].id
       /\ messages[i].sender = "ai"
       /\ messages[i - 1].sender = "user"
       /\ retry' = [call |-> c, messages |-> messages, at |-> i,
                    modelOverride |-> modelOverride]
       /\ SendCall(c, SubSeq(messages, 1, i - 1), messages[i - 1].text,
                   NoChat, modelOverride)
  /\ UNCHANGED <<stored, events, activeChat, activeChatIdRef, fetches, selects>>
  /\ UNCHANGED <<agentVars, streamVars, memVars, imgVars, histVars, storeVars,
                 authVars>>

\* ------------------------------------------------------------------------
\* Memory5Layer (src/services/memoryService.ts)
\*
\* An object is a function from its keys to their values.
\* ------------------------------------------------------------------------

EmptyObject == [k \in {} |-> ""]

\* A row of the memories table: its metadata.memory_key ("": the row has
\* none) and its content.
MemoryRow(key, content) == [key |-> key, content |-> content]

\* What a query of one layer answers: { data, error }
QueryAnswers ==
  {[error |-> TRUE, null |-> TRUE, rows |-> <<>>],
   [error |-> FALSE, null |-> TRUE, rows |-> <<>>],
   [error |-> FALSE, null |-> FALSE, rows |-> <<>>],
   [error |-> FALSE, null |-> FALSE, rows |-> <<MemoryRow("name", "Ada")>>],
   [error |-> FALSE, null |-> FALSE, rows |-> <<MemoryRow("", "lost")>>],
   [error |-> FALSE, null |-> FALSE,
    rows |-> <<MemoryRow("name", "Ada"), MemoryRow("city", "Rome"),
               MemoryRow("name", "Bob")>>]}

\* A mutant of getAll: an error of the query is thrown, as store throws it.
getAll_Throwing(a) ==
  [threw |-> a.error, value |-> EmptyObject]

\* getAll(layer), given the answer of its query (64-80): what it returns
getAll(a) ==
  [threw |-> FALSE,
   value |->
     IF a.error \/ a.null
       THEN EmptyObject
       ELSE LET at(k) == {i \in 1..Len(a.rows) : a.rows[i].key = k}
                keys == {a.rows[i].key : i \in 1..Len(a.rows)} \ {""}
            IN  [k \in keys |-> a.rows[Max(at(k))].content]]

\* getContext(layers) up to its first await: const context = {} and the
\* first query, or the return of the empty context (83-90)
GetContextCall ==
  /\ layerAt = 0
  /\ memoryContext' = EmptyObject
  /\ layerAt' = 1
  /\ UNCHANGED <<layers, table>>
  /\ UNCHANGED <<agentVars, streamVars, sendVars, imgVars, appVars>>

\* context[layer] = await this.getAll(layer), then the next layer or the
\* return (86-90)
GetContextStep ==
  /\ layerAt \in 1..Len(layers)
  /\ \E a \in QueryAnswers :
       LET r == getAll(a)
           layer == layers[layerAt]
       IN  /\ table' = Append(table, a)
           /\ IF r.threw
                THEN /\ layerAt' = -1
                     /\ UNCHANGED memoryContext
                ELSE /\ layerAt' = layerAt + 1
                     /\ memoryContext' =
                          [l \in DOMAIN memoryContext \cup {layer} |->
                             IF l = layer THEN r.value ELSE memoryContext[l]]
  /\ UNCHANGED layers
  /\ UNCHANGED <<agentVars, streamVars, sendVars, imgVars, appVars>>

\* ------------------------------------------------------------------------
\* generateImage (src/services/geminiService.ts)
\*
\* The message of an error is a sequence of fragments; the words
\* handleGeminiError looks for are fragments of their own.
\* ------------------------------------------------------------------------

\* What handleGeminiError throws (8-31): the message of the one new Error
handleGeminiError(errorMessage, context) ==
  LET has(w) == \E i \in 1..Len(errorMessage) : errorMessage[i] = w
      lower(c) == IF \E k \in 1..Len(UpperCase) : UpperCase[k] = c
                    THEN LowerCase[CHOOSE k \in 1..Len(UpperCase) : UpperCase[k] = c]
                    ELSE c
  IN  IF has("Rpc failed") \/ has("fetch")
        THEN <<"AI service connection failed. Please check your internet connection and disable any browser extensions (like ad-blockers), then try again.">>
      ELSE IF has("API key not valid")
        THEN <<"Your API key is not valid. Please check it in your settings.">>
      ELSE IF has("quota") \/ has("429")
        THEN <<"You've exceeded your API quota. Please try again later.">>
      ELSE <<"An error occurred in ">>
           \o [i \in 1..Len(context) |-> lower(context[i])]
           \o <<". Details: ">> \o errorMessage

\* The messages the service fails with.
ServiceFailures ==
  {<<"Failed to ", "fetch">>, <<"Rpc failed", " due to xhr error">>,
   <<"API key not valid", ". Please pass a valid API key.">>,
   <<"Resource exhausted: ", "quota">>, <<"429", " Too Many Requests">>,
   <<"Internal error">>}

\* What generateImages answers: it throws, or its response has no
\* generatedImages, an empty list, an entry without an image (reading
\* image.imageBytes throws a TypeError) or an entry with one.
PremiumAnswers ==
  {[threw |-> m, listed |-> FALSE, images |-> <<>>] : m \in ServiceFailures}
  \cup {[threw |-> <<>>, listed |-> FALSE, images |-> <<>>],
        [threw |-> <<>>, listed |-> TRUE, images |-> <<>>],
        [threw |-> <<>>, listed |-> TRUE, images |-> <<[image |-> <<>>]>>],
        [threw |-> <<>>, listed |-> TRUE, images |-> <<[image |-> <<"P">>]>>]}

\* A candidate of the response of generateContent: content (FALSE: none),
\* parts (listed FALSE: none) and, of each part, its inlineData.data
Candidate(content, listed, parts) ==
  [content |-> content, listed |-> listed, parts |-> parts]

\* What generateContent answers: it throws, or its response is missing, or
\* has the candidates told (listed FALSE: none).
DefaultAnswers ==
  {[threw |-> m, response |-> FALSE, listed |-> FALSE, candidates |-> <<>>] :
     m \in ServiceFailures}
  \cup {[threw |-> <<>>, response |-> FALSE, listed |-> FALSE, candidates |-> <<>>],
        [threw |-> <<>>, response |-> TRUE, listed |-> FALSE, candidates |-> <<>>],
        [threw |-> <<>>, response |-> TRUE, listed |-> TRUE, candidates |-> <<>>]}
  \cup {[threw |-> <<>>, response |-> TRUE, listed |-> TRUE, candidates |-> <<c>>] :
          c \in {Candidate(FALSE, FALSE, <<>>), Candidate(TRUE, FALSE, <<>>),
                 Candidate(TRUE, TRUE, <<>>), Candidate(TRUE, TRUE, <<<<>>>>),
                 Candidate(TRUE, TRUE, <<<<"D">>>>),
                 Candidate(TRUE, TRUE, <<<<>>, <<"D">>, <<"E">>>>)}}

\* A mutant of the test of line 147: one premium model only.
IsImagen_OnlyLatest(m) == m = "imagen_4"

\* The models that take the premium attempt (147)
IsImagen(m) == m \in {"imagen_2", "imagen_3", "imagen_4"}

\* generateImage up to the await of the premium attempt, or of the default
\* attempt when the model is not a premium one (142-150, 168-185)
ImageCall ==
  /\ imageOutcome.pc = "idle"
  /\ fallbackOccurred' = FALSE
  /\ imageOutcome' = [imageOutcome EXCEPT
                        !.pc = IF IsImagen(imageRequest.model)
                                 THEN "premium" ELSE "default"]
  /\ UNCHANGED imageRequest
  /\ UNCHANGED <<agentVars, streamVars, sendVars, memVars, appVars>>

\* The premium attempt answered (150-169): its image is returned, or
\* fallbackOccurred is set and the default attempt is made.
ImagePremium ==
  /\ imageOutcome.pc = "premium"
  /\ LET a == imageRequest.premium
     IN  IF a.threw = <<>> /\ a.listed /\ Len(a.images) > 0
              /\ a.images[1].image # <<>>
           THEN /\ imageOutcome' = [imageOutcome EXCEPT
                                      !.pc = "returned",
                                      !.imageBase64 = a.images[1].image,
                                      !.fallbackOccurred = FALSE,
                                      !.tier = "premium"]
                /\ UNCHANGED fallbackOccurred
         ELSE /\ fallbackOccurred' = TRUE
              /\ imageOutcome' = [imageOutcome EXCEPT !.pc = "default"]
  /\ UNCHANGED imageRequest
  /\ UNCHANGED <<agentVars, streamVars, sendVars, memVars, appVars>>

\* The message of the error the try block of the default attempt ends with,
\* <<>> when it returns (176-217)
DefaultFailure(a) ==
  IF a.threw # <<>> THEN a.threw
  ELSE IF ~a.response THEN <<"No response received from AI service.">>
  ELSE IF ~a.listed \/ Len(a.candidates) = 0
    THEN <<"The AI service could not generate an image for this prompt. It may have been flagged by safety filters.">>
  ELSE IF ~a.candidates[1].content THEN <<"Candidate content is missing.">>
  ELSE IF ~a.candidates[1].listed \/ Len(a.candidates[1].parts) = 0
    THEN <<"Content parts are missing.">>
  ELSE IF \A i \in 1..Len(a.candidates[1].parts) : a.candidates[1].parts[i] = <<>>
    THEN <<"Nano Banana model did not return an image. The prompt might have been blocked or the service is busy.">>
  ELSE <<>>

\* The default attempt answered (185-222): the first inline image is
\* returned with fallbackOccurred, or handleGeminiError throws.
ImageDefault ==
  /\ imageOutcome.pc = "default"
  /\ LET a == imageRequest.default
         parts == a.candidates[1].parts
     IN  IF DefaultFailure(a) = <<>>
           THEN imageOutcome' =
                  [imageOutcome EXCEPT
                     !.pc = "returned",
                     !.imageBase64 =
                        parts[Min({i \in 1..Len(parts) : parts[i] # <<>>})],
                     !.fallbackOccurred = fallbackOccurred,
                     !.tier = "default"]
         ELSE imageOutcome' =
                [imageOutcome EXCEPT
                   !.pc = "threw",
                   !.errors = Append(@, handleGeminiError(
                                          DefaultFailure(a),
                                          <<"E", "rror generating image">>))]
  /\ UNCHANGED <<imageRequest, fallbackOccurred>>
  /\ UNCHANGED <<agentVars, streamVars, sendVars, memVars, appVars>>

\* ------------------------------------------------------------------------
\* The messages of a SIMPLE hop (handler.ts 355-398)
\* ------------------------------------------------------------------------

\* A message of the chat, as far as the hop reads it
ChatMessage(sender, text) == [sender |-> sender, text |-> text]

\* const historyWithoutLast = (history.length > 0 && history[history.length
\* - 1].sender === 'user') ? history.slice(0, -1) : history (355-357)
historyWithoutLast(h) ==
  IF Len(h) > 0 /\ h[Len(h)].sender = "user"
    THEN SubSeq(h, 1, Len(h) - 1)
    ELSE h

\* A turn as the model is sent it: its role, its content and its parts
Turn(role, content, parts) == [role |-> role, content |-> content, parts |-> parts]

TextPart(t) == [text |-> t, inlineData |-> FALSE]

\* historyWithoutLast.map(...).filter(msg => msg.parts[0].text.trim() !== '')
\* (359-363)
MappedHistory(h, native) ==
  SelectSeq([i \in 1..Len(h) |->
               Turn(IF h[i].sender = "user" THEN "user"
                    ELSE IF native THEN "model" ELSE "assistant",
                    h[i].text, <<TextPart(h[i].text)>>)],
            LAMBDA msg : Trim(msg.parts[1].text) # <<>>)

\* The turn pushed for the current prompt; every file is put in front of
\* the text part (365-382)
CurrentTurn(p, withFile, native) ==
  Turn("user", p,
       IF withFile /\ native
         THEN <<[text |-> <<>>, inlineData |-> TRUE], TextPart(p)>>
         ELSE <<TextPart(p)>>)

\* What the model is sent: contents, of role and parts, for the native
\* provider, messages, of role and content, for the aggregator (388, 396)
SentTurns(turns, native) ==
  [i \in 1..Len(turns) |->
     IF native THEN [role |-> turns[i].role, parts |-> turns[i].parts]
     ELSE [role |-> turns[i].role, content |-> turns[i].content]]

\* The SIMPLE hop from the history to the call of the model
BuildHistory ==
  /\ pc = "history"
  /\ pc' = "stream"
  /\ historyMessages' =
       SentTurns(Append(MappedHistory(historyWithoutLast(history), isNative),
                        CurrentTurn(currentPrompt, agentFiles, isNative)),
                 isNative)
  /\ UNCHANGED <<history, agentFiles>>
  /\ UNCHANGED <<inputVars, localVars, result, returnedAt, log, retryVars>>
  /\ UNCHANGED <<streamVars, sendVars, memVars, imgVars, storeVars, viewVars,
                 authVars>>

\* ------------------------------------------------------------------------
\* Memory5Layer.store and get (src/services/memoryService.ts 13-61)
\*
\* The rows are those of one user. A query is run by the database at one
\* moment between the call that sends it and the continuation that reads
\* its answer; it can fail, and then answers { data: null, error }.
\* ------------------------------------------------------------------------

\* The (layer, key) pairs and the values of the calls
MemoryKeys == {<<"personal", "name">>, <<"project", "name">>}

MemoryValues ==
  {[type |-> "string", str |-> "7", num |-> 0],
   [type |-> "string", str |-> "Ada", num |-> 0],
   [type |-> "number", str |-> "", num |-> 7]}

\* A mutant of the content: the JSON text of every value.
ContentStr_AlwaysJson(value) ==
  IF value.type = "string" THEN <<"\"", value.str, "\"">>
  ELSE <<ToString(value.num)>>

\* const contentStr = typeof value === 'string' ? value : JSON.stringify(value) (24)
ContentStr(value) ==
  IF value.type = "string" THEN <<value.str>> ELSE <<ToString(value.num)>>

\* The rows .eq('layer', layer).eq('metadata->>memory_key', key) selects
RowsOf(rows, at) == {i \in 1..Len(rows) : rows[i].at = at}

\* .single(): the row when the query selects exactly one, null otherwise
Single(rows, at) ==
  IF Cardinality(RowsOf(rows, at)) = 1
    THEN CHOOSE i \in RowsOf(rows, at) : TRUE
    ELSE 0

\* No value: of a get, or of a key nothing was stored for
NoValue == [type |-> "none", str |-> "", num |-> 0]

NoMemCall ==
  [op |-> "none", pc |-> "idle", at |-> <<>>, value |-> NoValue, existing |-> 0,
   out |-> <<>>]

\* Whether a call is under way
MemBusy(c) == memCalls[c].pc \notin {"idle", "done", "threw"}

\* What is remembered of the calls so far: whether each of them ran alone,
\* with every query answered, and the value of the last store of each key
NoteCall(c) ==
  memSerial' = (memSerial /\ \A d \in DOMAIN memCalls \ {c} : ~MemBusy(d))

\* store(layer, key, value) up to its first await (14-22)
StoreCall(c) ==
  /\ memCalls[c].pc = "idle"
  /\ \E at \in MemoryKeys, value \in MemoryValues :
       memCalls' = [memCalls EXCEPT ![c] =
                      [NoMemCall EXCEPT !.op = "store", !.pc = "select",
                                        !.at = at, !.value = value]]
  /\ NoteCall(c)
  /\ UNCHANGED <<memories, memLast>>
  /\ UNCHANGED <<agentVars, streamVars, sendVars, memVars, imgVars, histVars,
                 viewVars, authVars>>

\* The select of store is answered (16-22): existing is the row found, and
\* the update or the insert is sent (26-45).
StoreSelected(c) ==
  /\ memCalls[c].pc = "select"
  /\ \E answered \in BOOLEAN :
       /\ memCalls' = [memCalls EXCEPT
                         ![c].pc = "write",
                         ![c].existing = IF answered
                                           THEN Single(memories, memCalls[c].at)
                                           ELSE 0]
       /\ memSerial' = (memSerial /\ answered)
  /\ UNCHANGED <<memories, memLast>>
  /\ UNCHANGED <<agentVars, streamVars, sendVars, memVars, imgVars, histVars,
                 viewVars, authVars>>

\* The update or the insert of store is answered (27-46): if (error) throw
StoreWritten(c) ==
  /\ memCalls[c].pc = "write"
  /\ LET call == memCalls[c]
     IN  \E answered \in BOOLEAN :
           IF ~answered
             THEN /\ memCalls' = [memCalls EXCEPT ![c].pc = "threw"]
                  /\ memSerial' = FALSE
                  /\ UNCHANGED <<memories, memLast>>
             ELSE /\ memories' =
                       IF call.existing # 0
                         THEN [memories EXCEPT ![call.existing].content =
                                                 ContentStr(call.value)]
                         ELSE Append(memories, [at |-> call.at,
                                                content |-> ContentStr(call.value)])
                  /\ memCalls' = [memCalls EXCEPT ![c].pc = "done"]
                  /\ memLast' = [memLast EXCEPT ![call.at] = call.value]
                  /\ UNCHANGED memSerial
  /\ UNCHANGED <<agentVars, streamVars, sendVars, memVars, imgVars, histVars,
                 viewVars, authVars>>

\* get(layer, key) up to its await (50-57)
GetCall(c) ==
  /\ memCalls[c].pc = "idle"
  /\ \E at \in MemoryKeys :
       memCalls' = [memCalls EXCEPT ![c] =
                      [NoMemCall EXCEPT !.op = "get", !.pc = "query", !.at = at]]
  /\ NoteCall(c)
  /\ UNCHANGED <<memories, memLast>>
  /\ UNCHANGED <<agentVars, streamVars, sendVars, memVars, imgVars, histVars,
                 viewVars, authVars>>

\* if (error || !data) return null; return data.content (59-60)
GetAnswered(c) ==
  /\ memCalls[c].pc = "query"
  /\ \E answered \in BOOLEAN :
       LET found == IF answered THEN Single(memories, memCalls[c].at) ELSE 0
       IN  /\ memCalls' = [memCalls EXCEPT
                             ![c].pc = "done",
                             ![c].existing = found,
                             ![c].out = IF found = 0 THEN <<"null">>
                                        ELSE memories[found].content]
           /\ memSerial' = (memSerial /\ answered)
  /\ UNCHANGED <<memories, memLast>>
  /\ UNCHANGED <<agentVars, streamVars, sendVars, memVars, imgVars, histVars,
                 viewVars, authVars>>

\* ------------------------------------------------------------------------
\* AuthProvider (src/unnamed/part_000 155-331)
\* ------------------------------------------------------------------------

Null == [id |-> "null"]

\* A row of the profiles table; "" is a key that is not set
ProfileRow(id, gemini, openrouter, role) ==
  [id |-> id, gemini_api_key |-> gemini, openrouter_api_key |-> openrouter,
   role |-> role]

AuthUser(id, email) == [id |-> id, email |-> email]

AuthSession(u) == [id |-> "session", user |-> u, access_token |-> "token"]

\* profile.gemini_api_key || null
KeyOrNull(k) == IF k = "" THEN "null" ELSE k

\* The state resolveUserSession leaves for a session of the admin's account
\* whose profile it could load (174-198)
Resolved(row) ==
  [session |-> AuthSession(AuthUser("admin", "admin@example.com")),
   user |-> AuthUser("admin", "admin@example.com"),
   profile |-> row,
   geminiApiKey |-> KeyOrNull(row.gemini_api_key),
   openRouterApiKey |-> KeyOrNull(row.openrouter_api_key),
   isAdmin |-> (row.role = "admin"),
   originalAdminState |-> Null]

\* saveGeminiApiKey and saveOpenRouterApiKey up to their await (255-265)
SaveApiKey(field, key) ==
  /\ auth.user # Null
  /\ authPending' = authPending \cup
                      {[kind |-> "save", field |-> field, key |-> key,
                        id |-> auth.user.id]}
  /\ authCall' = "saveApiKey"
  /\ UNCHANGED <<auth, profiles, authBefore>>
  /\ UNCHANGED <<agentVars, streamVars, sendVars, memVars, imgVars, histVars,
                 storeVars, viewVars>>

\* updateProfile answered: setGeminiApiKey(key) or setOpenRouterApiKey(key);
\* or it rejected
SaveAnswered ==
  /\ \E p \in authPending, saved \in BOOLEAN :
       /\ p.kind = "save"
       /\ authPending' = authPending \ {p}
       /\ IF ~saved
            THEN UNCHANGED <<auth, profiles>>
          ELSE /\ profiles' =
                    [profiles EXCEPT ![p.id] =
                       IF p.field = "gemini"
                         THEN [@ EXCEPT !.gemini_api_key = p.key]
                         ELSE [@ EXCEPT !.openrouter_api_key = p.key]]
               /\ auth' = IF p.field = "gemini"
                            THEN [auth EXCEPT !.geminiApiKey = p.key]
                            ELSE [auth EXCEPT !.openRouterApiKey = p.key]
  /\ authCall' = "saveAnswered"
  /\ UNCHANGED authBefore
  /\ UNCHANGED <<agentVars, streamVars, sendVars, memVars, imgVars, histVars,
                 storeVars, viewVars>>

\* What stopImpersonating sets (311-320)
Restored(original) ==
  [session |-> original.session,
   user |-> original.user,
   profile |-> original.profile,
   geminiApiKey |-> KeyOrNull(original.profile.gemini_api_key),
   openRouterApiKey |-> KeyOrNull(original.profile.openrouter_api_key),
   isAdmin |-> TRUE,
   originalAdminState |-> Null]

\* impersonateUser(profileToImpersonate) (296-309). The effect of 155-227
\* runs again, and its resolveUserSession returns at once (168).
ImpersonateUser ==
  /\ \E id \in DOMAIN profiles \ {"admin"} :
       LET to == profiles[id]
           impersonatedUser ==
             [auth.user EXCEPT !.id = to.id, !.email = "impersonating@bubble.ai"]
       IN  IF ~auth.isAdmin \/ auth.session = Null \/ auth.user = Null
              \/ auth.profile = Null
             THEN UNCHANGED <<auth, authBefore>>
           ELSE /\ auth' =
                     [session |-> [auth.session EXCEPT !.user = impersonatedUser],
                      user |-> impersonatedUser,
                      profile |-> to,
                      geminiApiKey |-> KeyOrNull(to.gemini_api_key),
                      openRouterApiKey |-> KeyOrNull(to.openrouter_api_key),
                      isAdmin |-> FALSE,
                      originalAdminState |->
                        [id |-> "saved", session |-> auth.session,
                         user |-> auth.user, profile |-> auth.profile]]
                /\ authBefore' = auth
  /\ authCall' = "impersonateUser"
  /\ UNCHANGED <<profiles, authPending>>
  /\ UNCHANGED <<agentVars, streamVars, sendVars, memVars, imgVars, histVars,
                 storeVars, viewVars>>

\* stopImpersonating (310-321). The effect of 155-227 runs again and calls
\* resolveUserSession with the session of the client (219).
StopImpersonating ==
  /\ IF auth.originalAdminState = Null
       THEN UNCHANGED <<auth, authPending, authBefore>>
     ELSE /\ auth' = Restored(auth.originalAdminState)
          /\ authPending' = authPending \cup {[kind |-> "resolve"]}
          /\ UNCHANGED authBefore
  /\ authCall' = "stopImpersonating"
  /\ UNCHANGED profiles
  /\ UNCHANGED <<agentVars, streamVars, sendVars, memVars, imgVars, histVars,
                 storeVars, viewVars>>

\* resolveUserSession of an effect that ran without an impersonation, for
\* the session of the client (167-215): the profile is loaded, or not
ResolveUserSession ==
  /\ [kind |-> "resolve"] \in authPending
  /\ authPending' = authPending \ {[kind |-> "resolve"]}
  /\ \E loaded \in BOOLEAN :
       auth' = IF loaded
                 THEN [Resolved(profiles["admin"]) EXCEPT
                         !.originalAdminState = auth.originalAdminState]
               ELSE [auth EXCEPT
                       !.session = Resolved(profiles["admin"]).session,
                       !.user = Resolved(profiles["admin"]).user,
                       !.profile = Null,
                       !.isAdmin = FALSE]
  /\ authCall' = "resolveUserSession"
  /\ UNCHANGED <<profiles, authBefore>>
  /\ UNCHANGED <<agentVars, streamVars, sendVars, memVars, imgVars, histVars,
                 storeVars, viewVars>>

\* ------------------------------------------------------------------------
\* Specifications
\* ------------------------------------------------------------------------

PlainInput ==
  [prompt |-> PlainPrompt, model |-> <<>>, openrouter_api_key |-> TRUE,
   chat |-> "chat-1", project |-> "project-1"]

\* The locals of runAutonomousAgent before its first statement.
FreshTurn(in) ==
  /\ input = in
  /\ model = in.model
  /\ prompt = in.prompt
  /\ isNative = FALSE
  /\ routing = Routing("null", <<>>)
  /\ currentAction = "null"
  /\ currentPrompt = <<>>
  /\ loopCount = 0
  /\ finalResponseText = <<>>
  /\ metadataPayload = NoMetadata
  /\ fallbackSearchContext = <<>>
  /\ generator = "none"
  /\ usedFallback = FALSE
  /\ generatedThisLoop = <<>>
  /\ result = NoResult
  /\ returnedAt = 0
  /\ log = <<>>

RetryIdle ==
  /\ rpc = "idle"
  /\ attempt = 0
  /\ retries = DefaultRetries
  /\ onRetry = TRUE
  /\ rlog = <<>>
  /\ rerr = NoError

\* handleSendMessage not called
SendIdle ==
  /\ isSendingRef = FALSE
  /\ sends = [c \in Callers |-> [pc |-> "idle", at |-> 0]]
  /\ sendLog = <<>>

\* Memory5Layer.getContext not called
MemoryIdle ==
  /\ layers = <<>>
  /\ table = <<>>
  /\ layerAt = 0
  /\ memoryContext = <<>>

\* The SIMPLE hop has built no history
HistoryIdle == history = <<>> /\ agentFiles = FALSE /\ historyMessages = <<>>

\* No memory stored, no call made
StoreIdle ==
  memories = <<>> /\ memCalls = <<>> /\ memSerial = TRUE /\ memLast = <<>>

\* The chat view before its first message
ViewIdle ==
  /\ messages = <<>>
  /\ stored = <<>>
  /\ events = {}
  /\ activeChat = NoChat
  /\ activeChatIdRef = NoChat
  /\ fetches = {}
  /\ sending = NotSending
  /\ retry = [call |-> 0]
  /\ selects = 0

\* Chat c1 is open and its history, the rows of c1, is loaded.
ChatOpen(rows) ==
  /\ stored = rows
  /\ messages = SelectSeq(rows, LAMBDA m : m.chat_id = "c1")
  /\ events = {}
  /\ activeChat = "c1"
  /\ activeChatIdRef = "c1"
  /\ fetches = {}
  /\ sending = NotSending
  /\ retry = [call |-> 0]
  /\ selects = 0

\* AuthProvider before its first sign-in
AuthIdle ==
  /\ auth = [session |-> "none"]
  /\ profiles = <<>>
  /\ authPending = {}
  /\ authBefore = [id |-> "null"]
  /\ authCall = "none"

AppIdle == HistoryIdle /\ StoreIdle /\ ViewIdle /\ AuthIdle

\* generateImage not called: nothing returned, nothing thrown
NoImageOutcome ==
  [pc |-> "idle", imageBase64 |-> <<>>, fallbackOccurred |-> FALSE,
   tier |-> "none", errors |-> <<>>]

ImageIdle ==
  /\ imageRequest = [model |-> "none"]
  /\ fallbackOccurred = FALSE
  /\ imageOutcome = NoImageOutcome

\* streamOpenRouter not called
StreamIdle ==
  /\ spc = "idle"
  /\ response = [resolved |-> FALSE, status |-> 0, body |-> NoBody, stream |-> FALSE]
  /\ wire = [lines |-> <<>>, open |-> FALSE]
  /\ rest = <<>>
  /\ reads = 0
  /\ buffer = <<>>
  /\ yielded = <<>>
  /\ serr = <<>>

\* A whole turn of the agent.
Init ==
  /\ \E in \in Inputs(TurnPrompts) : FreshTurn(in)
  /\ pc = "start"
  /\ RetryIdle
  /\ StreamIdle
  /\ SendIdle
  /\ MemoryIdle
  /\ ImageIdle
  /\ AppIdle
  /\ rateLimitsLeft = MaxRateLimits

Next ==
  \/ Start
  \/ LoopExit
  \/ HopSearch
  \/ HopThink
  \/ HopImage
  \/ HopCanvas
  \/ HopProject
  \/ HopStudy
  \/ HopSimple
  \/ RetryAttempt
  \/ RetryWait
  \/ AwaitReturned
  \/ AwaitThrew
  \/ StreamSimple
  \/ StreamTerminal
  \/ SimpleScan

Spec == Init /\ [][Next]_vars

\* generateContentStreamWithRetry on its own, for every retries up to the
\* default, with and without the onRetry callback, the provider free to
\* fail every attempt.
InitRetry ==
  /\ FreshTurn(PlainInput)
  /\ pc = "retry only"
  /\ rpc = "attempt"
  /\ attempt = 0
  /\ retries \in 0..DefaultRetries
  /\ onRetry \in BOOLEAN
  /\ rlog = <<>>
  /\ rerr = NoError
  /\ rateLimitsLeft = retries + 1
  /\ StreamIdle
  /\ SendIdle
  /\ MemoryIdle
  /\ ImageIdle
  /\ AppIdle

NextRetry == RetryAttempt \/ RetryWait

SpecRetry == InitRetry /\ [][NextRetry]_vars

\* The directive scan on its own: a text is up to MaxPieces of these pieces,
\* one after the other.
Pieces ==
  {OpenTag(SEARCH), CloseTag(SEARCH), OpenTag(THINK), CloseTag(THINK),
   <<"o", "k">>, <<"\n">>,
   Tagged(SEARCH, <<"q">>), Tagged(SEARCH, <<"a", "\n", "b">>),
   Tagged(SEARCH, <<"d", "e", "e", "p", " ", "x">>),
   <<"<", "s", "e", "a", "r", "c", "h", ">", "D", "e", "e", "p", "\t", "\n", "z",
     "<", "/", "s", "e", "a", "r", "c", "h", ">">>,
   Tagged(DEEP, <<"r">>), Tagged(THINK, <<" ", "t", " ">>),
   Tagged(IMAGE, <<"p">>), Tagged(PROJECT, <<"j">>), Tagged(CANVAS, <<"c">>),
   Tagged(STUDY, <<"s">>)}

\* The texts the directive scan is checked on.
ScanTexts ==
  {Flatten(ps) : ps \in UNION {[1..n -> Pieces] : n \in 0..MaxPieces}}

\* The first SIMPLE hop of a turn on the default model, at its directive
\* scan, the model having generated any of the texts: the first hop of the
\* turn or, when the prompt holds a video link, the hop after the search,
\* which found nothing.
InitScan ==
  /\ \E p \in TurnPrompts :
       LET video == initialAction(p) # "null"
           asked == IF video THEN SynthesisPrompt(RewrittenPrompt(p), <<>>)
                    ELSE RewrittenPrompt(p)
       IN  /\ input = [PlainInput EXCEPT !.prompt = p]
           /\ prompt = RewrittenPrompt(p)
           /\ routing = Routing(IF video THEN "SEARCH" ELSE "SIMPLE", <<>>)
           /\ currentPrompt = asked
           /\ loopCount = IF video THEN 2 ELSE 1
           /\ generatedThisLoop \in ScanTexts
           /\ log = <<Call("router", RewrittenPrompt(p)),
                      Answer("router", <<"SIMPLE">>), Call("memory", <<>>)>>
                    \o (IF video
                          THEN <<Chunk("status", <<"\nSearching sources...\n">>),
                                 Call("search", RewrittenPrompt(p)),
                                 Answer("search", <<>>)>>
                          ELSE <<>>)
                    \o <<ModelCall("generateContentStream", asked,
                                   SystemPrompt(GeminiFlash))>>
                    \o ChunkEvents(<<TextChunk(generatedThisLoop)>>)
  /\ model = GeminiFlash
  /\ isNative = TRUE
  /\ currentAction = "SIMPLE"
  /\ finalResponseText = generatedThisLoop
  /\ metadataPayload = NoMetadata
  /\ fallbackSearchContext = <<>>
  /\ generator = "native"
  /\ usedFallback = FALSE
  /\ result = NoResult
  /\ returnedAt = 0
  /\ pc = "scan"
  /\ RetryIdle
  /\ StreamIdle
  /\ SendIdle
  /\ MemoryIdle
  /\ ImageIdle
  /\ AppIdle
  /\ rateLimitsLeft = MaxRateLimits

NextScan == SimpleScan

SpecScan == InitScan /\ [][NextScan]_vars

\* The preparation of a turn (131-204) on its own, over more prompts.
InitStart ==
  /\ \E in \in Inputs(AllPrompts) : FreshTurn(in)
  /\ pc = "start"
  /\ RetryIdle
  /\ StreamIdle
  /\ SendIdle
  /\ MemoryIdle
  /\ ImageIdle
  /\ AppIdle
  /\ rateLimitsLeft = MaxRateLimits

NextStart == Start

SpecStart == InitStart /\ [][NextStart]_vars

\* streamOpenRouter on its own: any response; a success body of up to
\* MaxLines of these lines, the last one with or without its line end.
WireLines ==
  {DataPrefix \o <<"{", "Hi", "}">>,
   DataPrefix \o <<"{", "Yo", "}">>,
   DataPrefix \o <<"{", "Hi", "}", "\r">>,
   DataPrefix \o <<"{", "}">>,
   DataPrefix \o <<"{", "Hi">>,
   DoneLine,
   <<"data:", "{", "Hi", "}">>,
   <<": keep-alive">>,
   <<>>}

Wires ==
  {[lines |-> ls, open |-> o] :
     ls \in UNION {[1..n -> WireLines] : n \in 0..MaxLines}, o \in BOOLEAN}

\* The text of the body: every line followed by "\n", the last one only if
\* the upstream finished it.
Body(w) ==
  Flatten([i \in 1..Len(w.lines) |->
             w.lines[i] \o (IF i = Len(w.lines) /\ w.open THEN <<>> ELSE <<"\n">>)])

InitOpenRouter ==
  /\ FreshTurn([PlainInput EXCEPT !.model = MetaLlama])
  /\ pc = "stream only"
  /\ RetryIdle
  /\ rateLimitsLeft = MaxRateLimits
  /\ SendIdle
  /\ MemoryIdle
  /\ ImageIdle
  /\ AppIdle
  /\ spc = "fetch"
  /\ response \in Responses
  /\ wire \in (IF response.resolved /\ response.stream
               THEN Wires ELSE {[lines |-> <<>>, open |-> FALSE]})
  /\ rest = Body(wire)
  /\ reads = 0
  /\ buffer = <<>>
  /\ yielded = <<>>
  /\ serr = <<>>

NextOpenRouter == OrFetch \/ OrRead

SpecOpenRouter == InitOpenRouter /\ [][NextOpenRouter]_vars

\* handleSendMessage called up to MaxCalls times on one useChat instance,
\* at any moments.
InitSend ==
  /\ FreshTurn(PlainInput)
  /\ pc = "send only"
  /\ RetryIdle
  /\ rateLimitsLeft = MaxRateLimits
  /\ StreamIdle
  /\ SendIdle
  /\ MemoryIdle
  /\ ImageIdle
  /\ HistoryIdle
  /\ StoreIdle
  /\ AuthIdle
  /\ ChatOpen(<<>>)

NextSend ==
  \/ \E c \in Callers :
       SendEnter(c) \/ SendFiles(c) \/ SendSaved(c) \/ SendAgent(c) \/ SendFinish(c)
  \/ AddMessageStored

SpecSend == InitSend /\ [][NextSend]_vars

\* getContext on its own, for every list of up to MaxLayers of these layers
LayerNames == {"personal", "project", "custom"}

InitMemory ==
  /\ FreshTurn(PlainInput)
  /\ pc = "memory only"
  /\ RetryIdle
  /\ rateLimitsLeft = MaxRateLimits
  /\ StreamIdle
  /\ SendIdle
  /\ ImageIdle
  /\ AppIdle
  /\ layers \in UNION {[1..n -> LayerNames] : n \in 0..MaxLayers}
  /\ table = <<>>
  /\ layerAt = 0
  /\ memoryContext = <<>>

NextMemory == GetContextCall \/ GetContextStep

SpecMemory == InitMemory /\ [][NextMemory]_vars

\* generateImage on its own, for every model and every pair of answers
ImageModels == {"nano_banana", "imagen_2", "imagen_3", "imagen_4"}

InitImage ==
  /\ FreshTurn(PlainInput)
  /\ pc = "image only"
  /\ RetryIdle
  /\ rateLimitsLeft = MaxRateLimits
  /\ StreamIdle
  /\ SendIdle
  /\ MemoryIdle
  /\ imageRequest \in [model : ImageModels, premium : PremiumAnswers,
                       default : DefaultAnswers]
  /\ fallbackOccurred = FALSE
  /\ imageOutcome = NoImageOutcome
  /\ AppIdle

NextImage == ImageCall \/ ImagePremium \/ ImageDefault

SpecImage == InitImage /\ [][NextImage]_vars

\* The messages of a SIMPLE hop on their own, for every history of up to
\* MaxHistory of these messages.
HistoryTexts == {PlainPrompt, <<"y", "o">>, <<>>, <<" ">>}

InitHistory ==
  /\ FreshTurn(PlainInput)
  /\ pc = "history only"
  /\ RetryIdle
  /\ rateLimitsLeft = MaxRateLimits
  /\ StreamIdle
  /\ SendIdle
  /\ MemoryIdle
  /\ ImageIdle
  /\ StoreIdle
  /\ ViewIdle
  /\ AuthIdle
  /\ history \in UNION {[1..n -> {ChatMessage(s, t) : s \in {"user", "ai"},
                                                      t \in HistoryTexts}] :
                          n \in 0..MaxHistory}
  /\ agentFiles \in BOOLEAN
  /\ historyMessages = <<>>

\* The hop is entered on the native model or on another, at the first hop
\* or at a later one.
HistoryHop ==
  /\ pc = "history only"
  /\ pc' = "history"
  /\ isNative' \in BOOLEAN
  /\ currentPrompt' \in {prompt, <<"q">>}
  /\ currentAction' = "SIMPLE"
  /\ UNCHANGED <<model, prompt, routing, loopCount, finalResponseText,
                 metadataPayload, fallbackSearchContext, generator,
                 usedFallback, generatedThisLoop>>
  /\ UNCHANGED <<inputVars, result, returnedAt, log, retryVars, serviceVars>>

NextHistory == HistoryHop \/ BuildHistory

SpecHistory == InitHistory /\ [][NextHistory]_vars

\* MaxMemCalls calls of store and get, in every interleaving
InitStore ==
  /\ FreshTurn(PlainInput)
  /\ pc = "store only"
  /\ RetryIdle
  /\ rateLimitsLeft = MaxRateLimits
  /\ StreamIdle
  /\ SendIdle
  /\ MemoryIdle
  /\ ImageIdle
  /\ HistoryIdle
  /\ ViewIdle
  /\ AuthIdle
  /\ memories = <<>>
  /\ memCalls = [c \in 1..MaxMemCalls |-> NoMemCall]
  /\ memSerial = TRUE
  /\ memLast = [at \in MemoryKeys |-> NoValue]

NextStore ==
  \E c \in 1..MaxMemCalls :
    StoreCall(c) \/ StoreSelected(c) \/ StoreWritten(c) \/ GetCall(c) \/ GetAnswered(c)

SpecStore == InitStore /\ [][NextStore]_vars

\* AuthProvider on its own: the admin's account is signed in, its profile
\* loaded or not, the admin flag set by the role of the profile or by
\* loginAsAdmin (293), or not set.
InitAuth ==
  /\ FreshTurn(PlainInput)
  /\ pc = "auth only"
  /\ RetryIdle
  /\ rateLimitsLeft = MaxRateLimits
  /\ StreamIdle
  /\ SendIdle
  /\ MemoryIdle
  /\ ImageIdle
  /\ HistoryIdle
  /\ StoreIdle
  /\ ViewIdle
  /\ \E gemini \in {"", "old"}, role \in {"admin", "user"} :
       /\ profiles = [id \in {"admin", "bob"} |->
                        IF id = "admin"
                          THEN ProfileRow("admin", gemini, "or-old", role)
                          ELSE ProfileRow("bob", "bob-key", "", "user")]
       /\ \E loaded \in BOOLEAN, loggedAsAdmin \in BOOLEAN :
            auth = IF loaded
                     THEN [Resolved(profiles["admin"]) EXCEPT
                             !.isAdmin = @ \/ loggedAsAdmin]
                   ELSE [Resolved(profiles["admin"]) EXCEPT
                           !.profile = Null, !.geminiApiKey = "null",
                           !.openRouterApiKey = "null",
                           !.isAdmin = loggedAsAdmin]
  /\ authPending = {}
  /\ authBefore = Null
  /\ authCall = "none"

NextAuth ==
  \/ SaveApiKey("gemini", "new")
  \/ SaveApiKey("openrouter", "or-new")
  \/ SaveAnswered
  \/ ImpersonateUser
  \/ StopImpersonating
  \/ ResolveUserSession

SpecAuth == InitAuth /\ [][NextAuth]_vars

\* The chat view of chat c1, whose history of two messages is loaded, with
\* up to MaxCalls calls of handleSendMessage or handleRetry, up to MaxSelects
\* chat selections, and the fetches and INSERT events they bring.
StoredRows ==
  <<Msg(<<"row", 1>>, "c1", "hi", "user"), Msg(<<"row", 2>>, "c1", "yo", "ai"),
    Msg(<<"row", 3>>, "c2", "hey", "user")>>

InitChat ==
  /\ FreshTurn(PlainInput)
  /\ pc = "chat only"
  /\ RetryIdle
  /\ rateLimitsLeft = MaxRateLimits
  /\ StreamIdle
  /\ SendIdle
  /\ MemoryIdle
  /\ ImageIdle
  /\ HistoryIdle
  /\ StoreIdle
  /\ AuthIdle
  /\ ChatOpen(StoredRows)

NextChat ==
  \/ NextSend
  \/ \E c \in Callers : HandleRetry(c)
  \/ SelectChat
  \/ FetchRead
  \/ FetchDone
  \/ RealtimeInsert

SpecChat == InitChat /\ [][NextChat]_vars

\* ------------------------------------------------------------------------
\* Properties
\* ------------------------------------------------------------------------

Last(s) == s[Len(s)]

\* The entries of the retry helper's log of one kind, in order.
RlogOf(ev) == SelectSeq(rlog, LAMBDA x : x.ev = ev)

\* A rate-limit error, in the words of the specification: status 429, or
\* a message containing "429" or "quota".
RateLimited(e) ==
  e.status = 429 \/ "429" \in e.keywords \/ "quota" \in e.keywords

\* The texts the sink received as generated text, concatenated.
StreamedText(lg) ==
  LET texts == SelectSeq(lg, LAMBDA x : x.ev = "chunk" /\ x.who = "text")
  IN  Flatten([i \in 1..Len(texts) |-> texts[i].data])

IsErrorMessage(m) == Len(m.text) >= 1 /\ m.text[1] = "An error occurred: "

\* C1: the loop runs at most 6 hops, and when 6 hops have run without a
\* terminal return the next step returns a normal result whose single 'ai'
\* message carries the text streamed so far and the citation payload
\* gathered so far.
C1_HopBudget ==
  /\ [](loopCount <= 6)
  /\ [][(pc = "loop" /\ loopCount = 6) =>
          /\ pc' = "done"
          /\ loopCount' = 6
          /\ log' = log
          /\ Len(result'.messages) = 1
          /\ result'.messages[1].sender = "ai"
          /\ result'.messages[1].text = StreamedText(log)
          /\ result'.messages[1].meta = metadataPayload
          /\ result'.messages[1].image_base64 = <<>>
          /\ ~IsErrorMessage(result'.messages[1])]_vars

\* C1 witness: a turn that ended after the loop, at its 6th hop, with text
\* and citations.
C1_Witness ==
  /\ pc = "done"
  /\ returnedAt = 460
  /\ loopCount = 6
  /\ result.messages[1].text # <<>>
  /\ result.messages[1].meta.has

\* C2: the invocation never raises; once a collaborator's failure reached
\* the handler, the turn is over and its result is one 'ai' message
\* 'An error occurred: ...' without citations, image or accumulated text.
C2_NeverRaises ==
  /\ pc # "raised"
  /\ \A i \in 1..Len(log) :
       log[i].ev = "throw" =>
         /\ i = Len(log)
         /\ pc = "done"
         /\ Len(result.messages) = 1
         /\ result.messages[1].sender = "ai"
         /\ IsErrorMessage(result.messages[1])
         /\ ~result.messages[1].meta.has
         /\ result.messages[1].meta.groundingMetadata = <<>>
         /\ result.messages[1].image_base64 = <<>>
         /\ finalResponseText # <<>> =>
              ~Includes(result.messages[1].text, finalResponseText)

\* C2 witness: a model stream failed after text and citations had been
\* accumulated.
C2_Witness ==
  /\ pc = "done"
  /\ Last(log).ev = "throw"
  /\ Last(log).who = "stream"
  /\ finalResponseText # <<>>
  /\ metadataPayload.has
  /\ loopCount >= 3

\* The aggregator answered the request of a SIMPLE hop with the
\* 'unavailable / 404' failure.
AggregatorUnavailableSeen ==
  \E i \in 1..Len(log) :
    /\ log[i].ev = "throw"
    /\ log[i].who = "aggregator"
    /\ log[i].data = <<OpenRouterUnavailable.name>>

\* C4: after an 'unavailable / 404' failure of the aggregator in a SIMPLE
\* hop on a non-native model, a notice was streamed, the hop was served by
\* the native default model with usedFallback set, and the turn does not end
\* with the 'An error occurred' message.
C4_FallbackOnUnavailable ==
  (pc = "done" /\ ~isNative /\ AggregatorUnavailableSeen) =>
    /\ usedFallback
    /\ generator = "fallback"
    /\ \E i \in 1..Len(log) : log[i].ev = "chunk" /\ log[i].who = "status"
                              /\ " unavailable, switching to Gemini...)*\n"
                                   \in {log[i].data[k] : k \in 1..Len(log[i].data)}
    /\ ~IsErrorMessage(result.messages[1])

\* C5: when the attempts 0..k-1 failed with a rate-limit error and attempt
\* k succeeded, the helper returned after k waits of 3000, 5000, 9000 ms in
\* attempt order, and with a notice callback after exactly k notices, each
\* issued right before its wait.
C5_RetryNoticesAndWaits ==
  rpc = "returned" =>
    LET A == RlogOf("attempt")
        W == RlogOf("wait")
        N == RlogOf("notice")
        k == Len(A) - 1
    IN  ((\A i \in 1..k : RateLimited(A[i].err)) /\ A[k + 1].err = NoError) =>
          /\ k <= retries
          /\ \A i \in 1..(k + 1) : A[i].attempt = i - 1
          /\ [i \in 1..Len(W) |-> W[i].ms] = SubSeq(<<3000, 5000, 9000>>, 1, k)
          /\ Last(rlog) = A[k + 1]
          /\ onRetry =>
               /\ Len(N) = k
               /\ \A j \in 1..Len(rlog) :
                    rlog[j].ev = "wait" =>
                      /\ j > 1
                      /\ rlog[j - 1].ev = "notice"
                      /\ rlog[j - 1].attempt = rlog[j].attempt
                      /\ rlog[j - 1].ms = rlog[j].ms
               /\ Len(log) = k
               /\ \A i \in 1..k : log[i].data[2] = <<"3", "5", "9">>[i]
          /\ ~onRetry => (Len(N) = 0 /\ log = <<>>)

\* C5 witness: success on attempt 3 after three rate-limit failures, with
\* a notice callback.
C5_Witness ==
  /\ rpc = "returned"
  /\ attempt = 3
  /\ onRetry
  /\ Len(RlogOf("wait")) = 3

\* C6: with retries = 3 and every attempt failing with a rate-limit error,
\* the helper makes 4 attempts and 3 waits and then fails with 'Max retries
\* exceeded'.
C6_MaxRetriesExceeded ==
  (rpc = "threw" /\ retries = 3
   /\ \A i \in 1..Len(RlogOf("attempt")) : RateLimited(RlogOf("attempt")[i].err)) =>
    /\ Len(RlogOf("attempt")) = 4
    /\ Len(RlogOf("wait")) = 3
    /\ rerr.name = "Max retries exceeded"

\* C7: a failed attempt whose error is not a rate-limit error ends the
\* helper at once: it is the last thing the helper did, the helper threw
\* that very error, and no notice was issued for it, whatever retries came
\* before.
C7_OtherFailuresPropagate ==
  \A j \in 1..Len(rlog) :
    (rlog[j].ev = "attempt" /\ rlog[j].err # NoError
     /\ ~RateLimited(rlog[j].err)) =>
      /\ j = Len(rlog)
      /\ rpc = "threw"
      /\ rerr = rlog[j].err
      /\ attempt = rlog[j].attempt
      /\ Len(RlogOf("wait")) = rlog[j].attempt
      /\ Len(log) = IF onRetry THEN Len(RlogOf("wait")) ELSE 0

\* C7 witness: a server error on attempt 2, after two rate-limit retries.
C7_Witness ==
  /\ rpc = "threw"
  /\ rerr = ServerError
  /\ attempt = 2
  /\ Len(RlogOf("wait")) = 2

\* The prompt holds a video link of one of the recognised forms with the
\* 11-character id.
HasVideoLink(p) ==
  /\ Includes(p, VideoId)
  /\ Includes(p, YoutubeCom) \/ Includes(p, YoutuBe)

\* C8: with a recognised video or Shorts link in the prompt, the first hop
\* has action SEARCH, whatever the router answered, and its prompt is the
\* metadata query for the video id, not the user's text.
C8_VideoLinkForcesSearch ==
  (pc = "loop" /\ loopCount = 0 /\ HasVideoLink(input.prompt)) =>
    /\ currentAction = "SEARCH"
    /\ currentPrompt # input.prompt
    /\ Len(currentPrompt) > 15
    /\ SubSeq(currentPrompt, 1, 3)
         = <<"Find details for YouTube ",
             IF Includes(input.prompt, YoutubeCom \o Shorts) THEN "Short"
             ELSE "Video",
             " ID: ">>
    /\ SubSeq(currentPrompt, 4, 14) = VideoId
    /\ currentPrompt[15] = ". Title, Channel, and Summary. URL: "
    /\ Includes(SubSeq(currentPrompt, 16, Len(currentPrompt)), VideoId)

\* C8 witness: the router answered IMAGE for a prompt with a video link and
\* the first hop is SEARCH all the same.
C8_Witness ==
  /\ pc = "loop"
  /\ loopCount = 0
  /\ HasVideoLink(input.prompt)
  /\ \E i \in 1..Len(log) :
       log[i].ev = "answer" /\ log[i].who = "router" /\ log[i].data = <<"IMAGE">>
  /\ currentAction = "SEARCH"

\* The text holds <NAME> and, later, </NAME> with no line terminator
\* between the two.
HasTag(s, name) ==
  \E i \in 1..Len(s) :
    /\ StartsAt(s, i, OpenTag(name), FALSE)
    /\ \E j \in (i + Len(name) + 2)..Len(s) :
         /\ StartsAt(s, j, CloseTag(name), FALSE)
         /\ \A k \in (i + Len(name) + 2)..(j - 1) : s[k] \notin {"\n", "\r"}

\* The text holds, in any letter case, <SEARCH>deep, then one or more
\* white-space characters and, with no line terminator in between, a later
\* </SEARCH>.
HasDeepAlias(s) ==
  \E i \in 1..Len(s) :
    /\ StartsAt(s, i, <<"<", "s", "e", "a", "r", "c", "h", ">", "d", "e", "e", "p">>, TRUE)
    /\ \E w \in (i + 13)..Len(s) :
         /\ \A k \in (i + 12)..(w - 1) : s[k] \in {" ", "\t", "\n", "\r"}
         /\ \E j \in w..Len(s) :
              /\ StartsAt(s, j, <<"<", "/", "s", "e", "a", "r", "c", "h", ">">>, TRUE)
              /\ \A k \in w..(j - 1) : s[k] \notin {"\n", "\r"}

\* The directive of highest priority present in the text, "none" without
\* one; alias: whether the 'deep' form of the SEARCH tag counts as DEEP.
Highest(s, alias) ==
  IF HasTag(s, DEEP) \/ (alias /\ HasDeepAlias(s)) THEN "DEEP_SEARCH"
  ELSE IF HasTag(s, SEARCH) THEN "SEARCH"
  ELSE IF Includes(s, OpenTag(THINK)) THEN "THINK"
  ELSE IF HasTag(s, IMAGE) THEN "IMAGE"
  ELSE IF HasTag(s, PROJECT) THEN "PROJECT"
  ELSE IF HasTag(s, CANVAS) THEN "CANVAS"
  ELSE IF HasTag(s, STUDY) THEN "STUDY"
  ELSE "none"

\* What the scan of a SIMPLE hop decided: the next hop's action, or "none"
\* when the hop was terminal.
Decided == IF pc = "loop" THEN currentAction ELSE "none"

\* C3 as first stated: the next action is the highest-priority tag among
\* DEEP > SEARCH > THINK > IMAGE > PROJECT > CANVAS > STUDY, a DEEP tag
\* being <DEEP>...</DEEP> only; without a tag the hop is terminal.
C3_AsStated ==
  pc \in {"loop", "done"} => Decided = Highest(generatedThisLoop, FALSE)

\* C3: the next hop's action is the highest-priority directive present in
\* the generated text, in the order DEEP > SEARCH > THINK > IMAGE > PROJECT
\* > CANVAS > STUDY and whatever the order in the text, where the 'deep'
\* form of the SEARCH tag counts as DEEP; without a directive the hop is
\* terminal.
C3_DirectivePriority ==
  pc \in {"loop", "done"} =>
    /\ Decided = Highest(generatedThisLoop, TRUE)
    /\ (Decided = "none") = (pc = "done" /\ returnedAt = 455)

\* C3 witness: a SEARCH tag ahead of a DEEP tag in the text, and DEEP won.
C3_Witness ==
  /\ pc = "loop"
  /\ generatedThisLoop = Tagged(SEARCH, <<"q">>) \o Tagged(DEEP, <<"r">>)
  /\ currentAction = "DEEP_SEARCH"
  /\ currentPrompt = <<"r">>

\* C9 as first stated: for every p such that the text holds
\* <SEARCH>p</SEARCH>, and without <DEEP> in the text, the next hop is
\* SEARCH with prompt p.
C9_AsStated ==
  pc \in {"loop", "done"} =>
    \A i \in 1..Len(generatedThisLoop) :
      \A j \in (i + 8)..Len(generatedThisLoop) :
        (/\ StartsAt(generatedThisLoop, i, OpenTag(SEARCH), FALSE)
         /\ StartsAt(generatedThisLoop, j, CloseTag(SEARCH), FALSE)
         /\ ~Includes(generatedThisLoop, OpenTag(DEEP))) =>
          /\ pc = "loop"
          /\ currentAction = "SEARCH"
          /\ currentPrompt = SubSeq(generatedThisLoop, i + 8, j - 1)

\* Position i holds the first <SEARCH> of the text that is followed, with
\* no line terminator in between, by </SEARCH>, and j the first </SEARCH>
\* after it.
FirstSearchPair(s, i, j) ==
  LET closed(a) == /\ StartsAt(s, a, OpenTag(SEARCH), FALSE)
                   /\ \E b \in (a + 8)..Len(s) :
                        /\ StartsAt(s, b, CloseTag(SEARCH), FALSE)
                        /\ \A k \in (a + 8)..(b - 1) : s[k] \notin {"\n", "\r"}
  IN  /\ closed(i)
      /\ \A a \in 1..(i - 1) : ~closed(a)
      /\ j >= i + 8
      /\ StartsAt(s, j, CloseTag(SEARCH), FALSE)
      /\ \A b \in (i + 8)..(j - 1) : ~StartsAt(s, b, CloseTag(SEARCH), FALSE)

\* C9: for the payload p of the first SEARCH tag closed on its line, and
\* with no DEEP directive in the text (neither <DEEP>...</DEEP> nor the
\* 'deep' form of the SEARCH tag), the next hop is SEARCH with prompt
\* exactly p.
C9_SearchPayload ==
  pc \in {"loop", "done"} =>
    \A i \in 1..Len(generatedThisLoop) :
      \A j \in (i + 8)..Len(generatedThisLoop) :
        (/\ FirstSearchPair(generatedThisLoop, i, j)
         /\ ~HasTag(generatedThisLoop, DEEP)
         /\ ~HasDeepAlias(generatedThisLoop)) =>
          /\ pc = "loop"
          /\ currentAction = "SEARCH"
          /\ currentPrompt = SubSeq(generatedThisLoop, i + 8, j - 1)

\* C9 witness: a SEARCH tag with payload q and a second closing marker
\* after it, and the next hop searches for q.
C9_Witness ==
  /\ pc = "loop"
  /\ generatedThisLoop = Tagged(SEARCH, <<"q">>) \o CloseTag(SEARCH)
  /\ currentAction = "SEARCH"
  /\ currentPrompt = <<"q">>

\* The answers the search collaborator gave during the turn, in order.
SearchAnswersSeen ==
  SelectSeq(log, LAMBDA x : x.ev = "answer" /\ x.who = "search")

\* C10: a terminal SIMPLE hop whose model output was empty or white space,
\* after a search earlier in the turn, returns the cached answer of the most
\* recent search as the message text and sends it to the sink last.
C10_EmptyOutputFallsBackToSearch ==
  (/\ pc = "done"
   /\ returnedAt = 455
   /\ IsBlank(generatedThisLoop)
   /\ SearchAnswersSeen # <<>>
   /\ Last(SearchAnswersSeen).data # <<>>) =>
    /\ result.messages[1].text = Last(SearchAnswersSeen).data
    /\ Last(log) = Chunk("text", Last(SearchAnswersSeen).data)

\* The active model is not a native model of the gemini-2.5 generation.
NotQualifying == model \in {GoogleGemma, MetaLlama}

CallsOf(who) == SelectSeq(log, LAMBDA x : x.ev = "call" /\ x.who = who)

\* C11: a THINK hop on a model that is not a native gemini-2.5 model calls
\* nothing and sends nothing, and only switches the action to SIMPLE with
\* the prompt unchanged; so incrementThinkingCount is never invoked in a
\* turn on such a model.
C11_ThinkDowngrade ==
  /\ [](NotQualifying => CallsOf("incrementThinkingCount") = <<>>)
  /\ [][(pc = "loop" /\ loopCount < 6 /\ currentAction = "THINK"
         /\ NotQualifying) =>
          /\ log' = log
          /\ pc' = "loop"
          /\ currentAction' = "SIMPLE"
          /\ currentPrompt' = currentPrompt
          /\ result' = result
          /\ finalResponseText' = finalResponseText]_vars

\* C11 witness: on an aggregator model the second THINK directive of the
\* turn has just been downgraded, and the usage counter was never called.
C11_Witness ==
  /\ model = MetaLlama
  /\ pc = "loop"
  /\ loopCount = 4
  /\ currentAction = "SIMPLE"
  /\ generatedThisLoop = OpenTag(THINK)
  /\ CallsOf("incrementThinkingCount") = <<>>

\* The usage counter failed during the turn.
UsageCounterFailed ==
  \E i \in 1..Len(log) : log[i].ev = "throw" /\ log[i].who = "usage"

\* C12: a failure of incrementThinkingCount in a qualifying THINK hop does
\* not abort the turn: the reasoning call is still made and the result is
\* the generated text, not the 'An error occurred' message.
C12_CounterFailureTolerated ==
  (pc = "done" /\ UsageCounterFailed) =>
    /\ ~IsErrorMessage(result.messages[1])
    /\ returnedAt = 273
    /\ Len(CallsOf("generateContentStream")) >= 1
    /\ result.messages[1].text = finalResponseText

\* C13: the image collaborator is only called right after the
\* image_generation_start marker went to the sink, and a successful IMAGE
\* hop ends the turn at once with exactly one message that carries the
\* base64 image and the text accumulated before the hop.
C13_ImageMarkerThenResult ==
  /\ \A i \in 1..Len(log) :
       (log[i].ev = "call" /\ log[i].who = "generateImage") =>
         /\ i > 1
         /\ log[i - 1].ev = "chunk"
         /\ log[i - 1].who = "marker"
         /\ log[i - 1].data[1] = "{\"type\":\"image_generation_start\",\"text\":"
  /\ returnedAt = 289 =>
       /\ pc = "done"
       /\ Last(log).ev = "call"
       /\ Last(log).who = "generateImage"
       /\ Len(result.messages) = 1
       /\ result.messages[1].sender = "ai"
       /\ result.messages[1].image_base64 = <<"base64">>
       /\ result.messages[1].text = StreamedText(log)
       /\ ~IsErrorMessage(result.messages[1])

\* C13 witness: an image made in a hop that a directive of a SIMPLE hop
\* asked for, so that text had been accumulated before.
C13_Witness ==
  /\ returnedAt = 289
  /\ loopCount >= 2
  /\ result.messages[1].text = Tagged(IMAGE, <<"p">>)
  /\ result.messages[1].image_base64 # <<>>

\* C14: a failure of the image collaborator stays inside the IMAGE hop: the
\* note '(Image generation failed: ...)' is appended to the accumulated text
\* and streamed, and the turn returns a normal result with that text and
\* the accumulated citations; the outer catch is not involved.
C14_ImageFailureInline ==
  /\ (pc = "done" /\ CallsOf("generateImage") # <<>>) =>
       /\ returnedAt \in {289, 295}
       /\ \A i \in 1..Len(log) : log[i].ev # "throw"
       /\ ~IsErrorMessage(result.messages[1])
  /\ returnedAt = 295 =>
       /\ pc = "done"
       /\ Len(log) >= 2
       /\ log[Len(log) - 1].ev = "call"
       /\ log[Len(log) - 1].who = "generateImage"
       /\ Last(log).ev = "chunk"
       /\ Last(log).who = "text"
       /\ Len(Last(log).data) >= 1
       /\ Last(log).data[1] = "\n\n(Image generation failed: "
       /\ Len(result.messages) = 1
       /\ result.messages[1].sender = "ai"
       /\ result.messages[1].text = StreamedText(log)
       /\ result.messages[1].meta = metadataPayload
       /\ result.messages[1].image_base64 = <<>>

\* C14 witness: the image failed in a turn that had gathered text and
\* citations before.
C14_Witness ==
  /\ returnedAt = 295
  /\ result.messages[1].meta.has
  /\ Len(result.messages[1].text) > 3

\* The citations in a payload.
CitationsIn(meta) ==
  {meta.groundingMetadata[k] : k \in 1..Len(meta.groundingMetadata)}

\* C15: the citation list of a turn only grows from step to step, and a
\* turn that ends normally returns that list: every citation recorded in an
\* earlier hop is in the groundingMetadata of the final result.
C15_CitationsOnlyGrow ==
  [][/\ CitationsIn(metadataPayload) \subseteq CitationsIn(metadataPayload')
     /\ (pc' = "done" /\ returnedAt' # 465) =>
          result'.messages[1].meta = metadataPayload']_vars

\* The actions of the enumeration.
KnownActions ==
  {"SIMPLE", "SEARCH", "DEEP_SEARCH", "THINK", "IMAGE", "CANVAS", "PROJECT",
   "STUDY"}

\* C16: a hop begins exactly when the loop head is left with budget, and
\* then the hop counter goes up by one, downgrades of THINK, PROJECT and
\* STUDY to SIMPLE included; the counter never goes down; and whenever the
\* turn is back at the loop head it has an action of the enumeration and no
\* result, while a finished turn has its one result.
C16_HopsCountAndContinue ==
  /\ [](/\ pc = "loop" => (currentAction \in KnownActions /\ result.messages = <<>>)
        /\ pc = "done" => Len(result.messages) = 1
        /\ pc \in {"start", "loop", "await", "stream", "scan", "done"})
  /\ [][/\ loopCount' \in {loopCount, loopCount + 1}
        /\ (loopCount' = loopCount + 1) = (pc = "loop" /\ loopCount < 6)
        /\ (pc = "loop" /\ pc' = "loop") =>
             /\ currentAction \in {"SEARCH", "DEEP_SEARCH", "THINK", "PROJECT", "STUDY"}
             /\ currentAction' = "SIMPLE"
             /\ loopCount' = loopCount + 1]_vars

\* C16 witness: the router's PROJECT or STUDY was downgraded to SIMPLE, and
\* that took the first hop of the budget.
C16_Witness ==
  /\ pc = "loop"
  /\ loopCount = 1
  /\ routing.action \in {"PROJECT", "STUDY"}
  /\ currentAction = "SIMPLE"
  /\ CallsOf("generateContent") = <<>>

\* ------------------------------------------------------------------------
\* streamOpenRouter
\* ------------------------------------------------------------------------

IsPrefix(a, b) == Len(a) <= Len(b) /\ a = SubSeq(b, 1, Len(a))

\* The lines of the body the upstream finished with a line end
CompleteLines(w) ==
  IF w.open THEN SubSeq(w.lines, 1, Len(w.lines) - 1) ELSE w.lines

\* The non-empty content a line carries in a well-formed JSON payload behind
\* the prefix "data: ", if it is such a line
ContentOfLine(l) ==
  LET cs == {c \in Contents :
               l \in {<<"data:", " ", "{", c, "}">>, <<"data:", " ", "{", c, "}", "\r">>}}
  IN IF cs = {} THEN <<>> ELSE <<CHOOSE c \in cs : TRUE>>

ContentsOfLines(ls) == Flatten([i \in 1..Len(ls) |-> ContentOfLine(ls[i])])

\* C17: streamOpenRouter yields, in arrival order, exactly one delta for each
\* complete data line whose JSON holds a non-empty content, however the
\* network cuts the body into chunks; a malformed line yields nothing and
\* the lines after it are still delivered.
C17_OneDeltaPerDataLine ==
  /\ IsPrefix(yielded, ContentsOfLines(CompleteLines(wire)))
  /\ spc = "done" => yielded = ContentsOfLines(CompleteLines(wire))

\* A malformed data line, then a good one, every symbol in a chunk of its own
C17_Witness ==
  /\ spc = "done"
  /\ wire = [lines |-> <<<<"data:", " ", "{", "Hi">>, <<"data:", " ", "{", "Hi", "}">>>>,
             open |-> FALSE]
  /\ reads = 11
  /\ yielded = <<"Hi">>

\* The lines before the first 'data: [DONE]'
BeforeDone(ls) ==
  LET at == {i \in 1..Len(ls) : ls[i] = <<"data:", " ", "[DONE]">>}
  IN IF at = {} THEN ls ELSE SubSeq(ls, 1, Min(at) - 1)

\* C18: streamOpenRouter stops at 'data: [DONE]': it yields no delta for a
\* data line after the sentinel.
C18_StopsAtDone ==
  IsPrefix(yielded, ContentsOfLines(BeforeDone(CompleteLines(wire))))

\* C19: on a non-success status streamOpenRouter yields nothing and fails,
\* with the 'unavailable (No providers)' failure exactly when the status is
\* 404 and the body's message contains 'No allowed providers' or its code is
\* 404, otherwise with a failure that carries the upstream error message or,
\* the body not being JSON, the raw body text.
C19_FailureOnStatus ==
  (spc = "threw" /\ response.resolved /\ response.status \notin 200..299) =>
    LET b == response.body
        unavailable == /\ response.status = 404
                       /\ \/ \E i \in 1..Len(b.message) : b.message[i] = "No allowed providers"
                          \/ b.code = 404
    IN /\ yielded = <<>>
       /\ (serr = UnavailableMessage(model)) = unavailable
       /\ (~unavailable /\ b.message # <<>>) => Includes(serr, b.message)
       /\ (~unavailable /\ ~b.json /\ b.text # <<>>) => Includes(serr, b.text)

C21_CanvasDelegates ==
  /\ Len(CallsOf("runCanvasAgent")) <= 1
  /\ \A i \in 1..Len(log) :
       (log[i].ev = "call" /\ log[i].who = "runCanvasAgent") =>
         /\ log[i].input = [input EXCEPT !.prompt = currentPrompt]
         /\ pc = "done"
         /\ returnedAt \in {306, 465}
         /\ \A j \in (i + 1)..Len(log) : log[j].ev \in {"answer", "throw"}
  /\ returnedAt = 306 =>
       /\ pc = "done"
       /\ currentAction = "CANVAS"
       /\ Len(log) >= 2
       /\ log[Len(log) - 1].ev = "call"
       /\ log[Len(log) - 1].who = "runCanvasAgent"
       /\ Last(log).ev = "answer"
       /\ Len(result.messages) = 1
       /\ result.messages[1].sender = "ai"
       /\ result.messages[1].text = Last(log).data

\* The sub-agent was asked for by a directive and its message has no text:
\* the tag the model streamed is not in the result.
C21_Witness ==
  /\ returnedAt = 306
  /\ loopCount = 2
  /\ input.model = MetaLlama
  /\ StreamedText(log) = Tagged(CANVAS, <<"c">>)
  /\ log[Len(log) - 1].input.prompt = <<"c">>
  /\ result.messages[1].text = <<>>

\* C22: a PROJECT or STUDY hop on a model that is not native makes no call
\* and goes on as a SIMPLE hop with the same prompt.  On a native model it
\* makes its one generation call with the prompt of the hop, what is
\* generated is appended to the accumulated text, and the turn ends in that
\* hop with the accumulated text.
C22_ProjectAndStudy ==
  /\ [](/\ returnedAt \in {329, 348} =>
             /\ pc = "done"
             /\ isGoogleModel(model)
             /\ currentAction = (IF returnedAt = 329 THEN "PROJECT" ELSE "STUDY")
             /\ Len(result.messages) = 1
             /\ result.messages[1].text = finalResponseText
             /\ result.messages[1].text = StreamedText(log)
        /\ returnedAt = 329 =>
             /\ Last(log).ev = "chunk"
             /\ Includes(Last(log).data, <<"{}">>)
             /\ log[Len(log) - 1] = Call("generateContent", currentPrompt))
  /\ [][/\ (pc = "loop" /\ loopCount < 6 /\ currentAction \in {"PROJECT", "STUDY"}) =>
             LET added == SubSeq(log', Len(log) + 1, Len(log'))
                 calls == SelectSeq(added, LAMBDA x : x.ev = "call")
             IN IF isGoogleModel(model)
                  THEN /\ pc' # "loop"
                       /\ currentAction' = currentAction
                       /\ calls = <<Call(IF currentAction = "PROJECT"
                                           THEN "generateContent"
                                           ELSE "generateContentStream",
                                         currentPrompt)>>
                  ELSE /\ log' = log
                       /\ pc' = "loop"
                       /\ currentAction' = "SIMPLE"
                       /\ currentPrompt' = currentPrompt
                       /\ result' = result
                       /\ finalResponseText' = finalResponseText
        /\ (pc \in {"await", "stream"} /\ currentAction \in {"PROJECT", "STUDY"}) =>
             /\ pc' \in {"await", "stream", "done"}
             /\ loopCount' = loopCount
             /\ IsPrefix(finalResponseText, finalResponseText')]_vars

\* A study plan a SIMPLE hop asked for was streamed after the tag.
C22_Witness ==
  /\ returnedAt = 348
  /\ loopCount = 2
  /\ result.messages[1].text = Tagged(STUDY, <<"s">>) \o <<"T">>

\* C23: a THINK hop on a native gemini-2.5 model calls incrementThinkingCount
\* once, before it calls the model, and the turn ends in that hop: what is
\* returned is one message with the accumulated text.  The counter is
\* therefore called at most once in a turn.
C23_ThinkCountsOnce ==
  /\ [](/\ Len(CallsOf("incrementThinkingCount")) <= 1
        /\ \A i \in 1..Len(log) :
             (log[i].ev = "call" /\ log[i].who = "incrementThinkingCount") =>
               /\ SupportsThinking(model)
               /\ currentAction = "THINK"
               /\ pc # "loop"
               /\ i < Len(log) =>
                    \/ log[i + 1].ev = "throw"
                    \/ log[i + 1] = Call("generateContentStream", currentPrompt)
        /\ (generator = "think" /\ pc \in {"await", "stream"}) =>
             /\ Len(CallsOf("incrementThinkingCount")) = 1
             /\ \E i \in 2..Len(log) :
                  /\ log[i - 1].who = "incrementThinkingCount"
                  /\ log[i] = Call("generateContentStream", currentPrompt)
        /\ returnedAt = 273 =>
             /\ pc = "done"
             /\ Len(CallsOf("incrementThinkingCount")) = 1
             /\ Len(result.messages) = 1
             /\ result.messages[1].sender = "ai"
             /\ result.messages[1].text = finalResponseText
             /\ result.messages[1].text = StreamedText(log))
  /\ [][(pc = "loop" /\ loopCount < 6 /\ currentAction = "THINK"
         /\ SupportsThinking(model)) =>
          /\ pc' \in {"await", "done"}
          /\ Len(SelectSeq(log', LAMBDA x : x.ev = "call")) <=
               Len(SelectSeq(log, LAMBDA x : x.ev = "call")) + 2
          /\ Len(CallsOf("incrementThinkingCount")) = 0]_vars

\* The reasoning a SIMPLE hop asked for with a bare tag was streamed and
\* returned behind what that hop had streamed.
C23_Witness ==
  /\ returnedAt = 273
  /\ loopCount = 2
  /\ result.messages[1].text = OpenTag(THINK) \o <<"T">>
  /\ Len(CallsOf("incrementThinkingCount")) = 1

\* The places of the calls of a collaborator in the log
CallPlaces(who) == {i \in 1..Len(log) : log[i].ev = "call" /\ log[i].who = who}

\* The model calls of the SIMPLE hops of the turn, in order
SimpleCalls == SelectSeq(log, LAMBDA x : x.ev = "call" /\ "system" \in DOMAIN x)

InFlight(c) == sends[c].pc \in {"files", "saving user", "agent", "after agent"}

\* C25: at most one handleSendMessage call is in flight; a call made while
\* another is in flight returns { messages: [] } at once and leaves the
\* chat, the store and the agent alone.
C25_OneSendInFlight ==
  /\ [](/\ Cardinality({c \in Callers : InFlight(c)}) <= 1
        /\ \A c \in Callers :
             sends[c].at \in {228, 230} =>
               \A i \in 1..Len(sendLog) : sendLog[i].call # c)
  /\ [][\A c \in Callers :
          (sends[c].pc = "idle" /\ sends'[c].pc # "idle"
           /\ \E d \in Callers : InFlight(d)) =>
            /\ sends'[c].pc = "returned"
            /\ sends'[c].at \in {228, 230}
            /\ sendLog' = sendLog
            /\ \A d \in Callers \ {c} : sends'[d] = sends[d]]_vars

\* A second call came while the first was waiting for the agent, and was
\* turned away by the guard.
C25_Witness ==
  /\ sends[1].pc = "agent"
  /\ sends[2] = [pc |-> "returned", at |-> 230]
  /\ sendLog[Len(sendLog)] = [call |-> 1, did |-> "runAgent"]

\* ------------------------------------------------------------------------
\* Memory5Layer
\* ------------------------------------------------------------------------

\* getContext has returned
ContextReturned == layerAt = Len(layers) + 1

\* C26: getContext does not fail, and what it returns has an entry for each
\* layer asked for and for nothing else; the entry of a layer whose query
\* reported an error, or answered no rows, is an empty object.
C26_ContextForEveryLayer ==
  /\ layerAt # -1
  /\ ContextReturned =>
       /\ DOMAIN memoryContext = {layers[i] : i \in 1..Len(layers)}
       /\ Len(table) = Len(layers)
       /\ \A i \in 1..Len(layers) :
            ((\A j \in (i + 1)..Len(layers) : layers[j] # layers[i])
             /\ (table[i].error \/ table[i].null \/ table[i].rows = <<>>))
              => DOMAIN memoryContext[layers[i]] = {}

\* The query of the first layer reported an error, the second had rows.
C26_Witness ==
  /\ ContextReturned
  /\ layers = <<"personal", "project">>
  /\ table[1].error
  /\ DOMAIN memoryContext["personal"] = {}
  /\ DOMAIN memoryContext["project"] = {"name", "city"}
  /\ memoryContext["project"]["name"] = "Bob"

\* ------------------------------------------------------------------------
\* What the sink saw and what the turn returned
\* ------------------------------------------------------------------------

\* The turn ended without an error and without a CANVAS hop.
EndedPlainly ==
  /\ pc = "done"
  /\ ~IsErrorMessage(result.messages[1])
  /\ \A i \in 1..Len(log) : log[i].who # "runCanvasAgent"

\* C27 as stated: the text of the message of a turn that ended without an
\* error and without a CANVAS hop is the concatenation, in order, of the
\* text chunks the sink received.
C27_ReturnedTextIsStreamedText ==
  EndedPlainly => result.messages[1].text = StreamedText(log)

\* The cached search answer took the place of a blank text: it is the text
\* at hand and the last text chunk the sink received, after blank ones only.
Substituted(text) ==
  /\ fallbackSearchContext # <<>>
  /\ text = fallbackSearchContext
  /\ log # <<>>
  /\ log[Len(log)] = Chunk("text", text)
  /\ IsBlank(StreamedText(SubSeq(log, 1, Len(log) - 1)))

\* C27, amended: as long as no CANVAS hop has answered, the accumulated text
\* is the concatenation, in order, of the text chunks the sink received, and
\* so is the text of the message of a turn that ends without an error;
\* except that, when all the generated text was blank and a search answer
\* is cached, the message carries the cached answer alone, which the sink
\* received last.
C27_TextIsStreamedOrSubstituted ==
  /\ (\A i \in 1..Len(log) : log[i].who # "runCanvasAgent") =>
       \/ finalResponseText = StreamedText(log)
       \/ Substituted(finalResponseText)
  /\ EndedPlainly =>
       \/ result.messages[1].text = StreamedText(log)
       \/ returnedAt = 455 /\ Substituted(result.messages[1].text)

\* A turn whose only generated text was a blank, after a search.
C27_Witness ==
  /\ EndedPlainly
  /\ returnedAt = 455
  /\ result.messages[1].text = <<"A">>
  /\ StreamedText(log) = <<" ", "A">>

\* ------------------------------------------------------------------------
\* generateImage
\* ------------------------------------------------------------------------

\* A premium (imagen) model was asked for.
PremiumAsked == imageRequest.model \in ImageModels \ {"nano_banana"}

\* The premium attempt gave an image.
PremiumGaveImage ==
  LET a == imageRequest.premium
  IN  a.threw = <<>> /\ a.listed /\ a.images # <<>> /\ a.images[1].image # <<>>

\* C28: what generateImage returns has fallbackOccurred = true exactly when
\* a premium model was asked for and its attempt failed or gave no image,
\* and then the image is the one of the default attempt; generateImage
\* throws only when the default attempt failed, and then one error, with a
\* message of handleGeminiError; a premium attempt's failure is never thrown.
C28_FallbackAndSingleError ==
  /\ imageOutcome.pc = "returned" =>
       /\ imageOutcome.imageBase64 # <<>>
       /\ imageOutcome.errors = <<>>
       /\ imageOutcome.fallbackOccurred
            <=> (PremiumAsked /\ ~PremiumGaveImage)
       /\ imageOutcome.fallbackOccurred => imageOutcome.tier = "default"
       /\ imageOutcome.tier = "premium"
            <=> (PremiumAsked /\ PremiumGaveImage)
  /\ imageOutcome.pc = "threw" =>
       /\ DefaultFailure(imageRequest.default) # <<>>
       /\ ~(PremiumAsked /\ PremiumGaveImage)
       /\ Len(imageOutcome.errors) = 1
       /\ imageOutcome.errors[1] # DefaultFailure(imageRequest.default)
       /\ imageOutcome.errors[1] # imageRequest.premium.threw
  /\ (PremiumAsked /\ ~PremiumGaveImage
      /\ DefaultFailure(imageRequest.default) = <<>>)
       => imageOutcome.pc # "threw"

\* A premium attempt that threw, then an image of the default attempt.
C28_Witness ==
  /\ imageOutcome.pc = "returned"
  /\ imageRequest.model = "imagen_4"
  /\ imageRequest.premium.threw = <<"Internal error">>
  /\ imageOutcome.fallbackOccurred
  /\ imageOutcome.imageBase64 = <<"D">>

\* ------------------------------------------------------------------------
\* The prompt of the hop a directive starts
\* ------------------------------------------------------------------------

\* The payload captured for the directive that won the scan.
WinningPayload ==
  LET gen == generatedThisLoop
  IN  CASE currentAction = "DEEP_SEARCH" -> deepMatch(gen).cap
        [] currentAction = "SEARCH" -> searchMatch(gen).cap
        [] currentAction = "THINK" -> thinkMatch(gen).cap
        [] currentAction = "IMAGE" -> imageMatch(gen).cap
        [] currentAction = "PROJECT" -> projectMatch(gen).cap
        [] currentAction = "CANVAS" -> canvasMatch(gen).cap
        [] currentAction = "STUDY" -> studyMatch(gen).cap
        [] OTHER -> <<>>

\* C29 as stated: after a SIMPLE hop whose text holds a directive, the prompt
\* of the next hop is the prompt the turn was given when THINK won without a
\* payload, and the captured payload otherwise.
C29_AsStated ==
  pc = "loop" =>
    currentPrompt = IF currentAction = "THINK" /\ WinningPayload = <<>>
                      THEN input.prompt
                      ELSE WinningPayload

\* C29, amended: after a SIMPLE hop whose text holds a directive, the prompt
\* of the next hop is, when THINK won with no or an empty captured payload,
\* the prompt of the turn as rewritten for a video link at the start of the
\* turn; when THINK won with a payload, the payload without its leading and
\* trailing white space; and otherwise the captured payload.
C29_NextPrompt ==
  /\ prompt = RewrittenPrompt(input.prompt)
  /\ pc = "loop" =>
       currentPrompt =
         IF currentAction # "THINK" THEN WinningPayload
         ELSE IF WinningPayload = <<>> THEN RewrittenPrompt(input.prompt)
         ELSE Trim(WinningPayload)

\* An empty THINK tag in a turn whose prompt held a video link.
C29_Witness ==
  /\ pc = "loop"
  /\ currentAction = "THINK"
  /\ generatedThisLoop = OpenTag(THINK) \o CloseTag(THINK)
  /\ input.prompt # prompt
  /\ currentPrompt = prompt

\* ------------------------------------------------------------------------
\* The aggregator key is missing
\* ------------------------------------------------------------------------

\* C30: in a turn that streamed the notice 'OpenRouter key missing, falling
\* back to Gemini', no model call goes to the aggregator: every model call
\* of the turn goes to the native provider.
C30_KeyMissingFallsBack ==
  (\E i \in 1..Len(log) : log[i] = KeyMissingNotice) =>
    \A j \in 1..Len(log) : log[j].who # "streamOpenRouter"

\* ------------------------------------------------------------------------
\* The shape of every result
\* ------------------------------------------------------------------------

\* C31: the turn never raises, and whatever the place it returns at (the
\* terminal hop of any action, the end of the hop budget, the outer catch),
\* its result holds exactly one message, of sender 'ai', with the chat and
\* project ids of the input.
C31_OneAiMessage ==
  /\ pc # "raised"
  /\ (pc = "done") = (result # NoResult)
  /\ pc = "done" =>
       /\ returnedAt \in {273, 289, 295, 306, 329, 348, 455, 460, 465}
       /\ Len(result.messages) = 1
       /\ result.messages[1].sender = "ai"
       /\ result.messages[1].chat_id = input.chat
       /\ result.messages[1].project_id = input.project

\* A turn that ended at the CANVAS hop.
C31_Witness ==
  /\ pc = "done"
  /\ returnedAt = 306
  /\ Len(result.messages) = 1
  /\ result.messages[1].chat_id = "chat-1"

\* C32: the guard is held exactly while a send is in flight: the return of
\* the send that took it, from the try block or from its catch, releases it,
\* and a call made when no send is in flight is not turned away by the
\* guard; a call turned away by the input checks or by the guard leaves the
\* guard as it was.
C32_GuardReleased ==
  /\ [](isSendingRef <=> \E c \in Callers : InFlight(c))
  /\ [][\A c \in Callers :
          /\ (InFlight(c) /\ sends'[c].pc = "returned") =>
               /\ sends'[c].at \in {525, 531}
               /\ ~isSendingRef'
          /\ (sends[c].pc = "idle" /\ sends'[c].pc = "returned") =>
               /\ sends'[c].at \in {228, 230}
               /\ isSendingRef' = isSendingRef
          /\ (sends[c].pc = "idle" /\ sends'[c].pc # "idle"
              /\ ~\E d \in Callers : InFlight(d)) =>
               sends'[c].at # 230]_vars

\* The first send threw, and the second, made after it, was accepted.
C32_Witness ==
  /\ sends[1] = [pc |-> "returned", at |-> 531]
  /\ InFlight(2)
  /\ isSendingRef

\* ------------------------------------------------------------------------
\* The messages of a SIMPLE hop
\* ------------------------------------------------------------------------

\* The role and the text of each turn sent.
SentTexts ==
  [i \in 1..Len(historyMessages) |->
     [role |-> historyMessages[i].role,
      text |-> IF "content" \in DOMAIN historyMessages[i]
                 THEN historyMessages[i].content
                 ELSE historyMessages[i].parts[Len(historyMessages[i].parts)].text]]

\* C37: the turns sent in a SIMPLE hop are those of the history, in its
\* order, without the turns of blank text and without its last turn when
\* that is a user turn with the text of the current turn, and then one user
\* turn with the prompt of the hop; the history is left as it was.
C37_HistoryThenPrompt ==
  pc = "stream" =>
    LET n == Len(history)
        duplicate == /\ n > 0
                     /\ history[n].sender = "user"
                     /\ history[n].text \in {prompt, currentPrompt}
        prior == IF duplicate THEN SubSeq(history, 1, n - 1) ELSE history
        kept == SelectSeq(prior, LAMBDA m : ~IsBlank(m.text))
    IN  SentTexts =
          [i \in 1..Len(kept) |->
             [role |-> IF kept[i].sender = "user" THEN "user"
                       ELSE IF isNative THEN "model" ELSE "assistant",
              text |-> kept[i].text]]
          \o <<[role |-> "user", text |-> currentPrompt]>>

\* ------------------------------------------------------------------------
\* Memory5Layer.store and get
\* ------------------------------------------------------------------------

\* C34: the table never holds two rows of the same (layer, key).
C34_OneRowPerKey ==
  \A at \in MemoryKeys : Cardinality(RowsOf(memories, at)) <= 1

isImpersonating == auth.originalAdminState # Null

\* C38: stopImpersonating puts back the session, the user, the profile, the
\* keys and isAdmin = true as they were when impersonateUser was called;
\* impersonateUser changes nothing unless isAdmin holds with a session, a
\* user and a profile, and otherwise isImpersonating holds from it on, up to
\* stopImpersonating.
C38_ImpersonationRoundTrip ==
  [][/\ (authCall' = "stopImpersonating" /\ isImpersonating) =>
          /\ ~isImpersonating'
          /\ auth' = [authBefore EXCEPT !.isAdmin = TRUE]
          /\ authBefore.isAdmin
     /\ authCall' = "impersonateUser" =>
          IF auth.isAdmin /\ auth.session # Null /\ auth.user # Null
             /\ auth.profile # Null
            THEN isImpersonating'
            ELSE auth' = auth
     /\ (authCall' \notin {"impersonateUser", "stopImpersonating"}) =>
          (isImpersonating' <=> isImpersonating)]_vars

\* ------------------------------------------------------------------------
\* useChat: the message list
\* ------------------------------------------------------------------------

\* C33: no two messages of the displayed list have the same id.
C33_NoDuplicateIds ==
  \A i, j \in 1..Len(messages) : messages[i].id = messages[j].id => i = j

\* C36: a retry of an AI message behind a user message, made while no send
\* is in flight, takes that message and every later one off the list,
\* keeps the messages before it, and sends the text of the user message
\* before it to the agent, in the active chat and with the chosen model.
C36_RetryResends ==
  [][\A c \in Callers :
       (retry' # retry /\ retry'.call = c /\ ~isSendingRef) =>
         LET old == retry'.messages
             at == retry'.at
         IN  /\ SubSeq(messages', 1, at - 1) = SubSeq(old, 1, at - 1)
             /\ \A k \in at..Len(old), j \in 1..Len(messages') :
                  messages'[j].id # old[k].id
             /\ InFlight(c)'
             /\ sending'.msg.text = old[at - 1].text
             /\ sending'.msg.chat_id = activeChat
             /\ sending'.model = retry'.modelOverride]_vars

=============================================================================
